---- MODULE Spec2Model ----
(***************************************************************************)
(* Crawl-session controller of the LinkedIn multi-company scrapers          *)
(* (Linkedin_Large.py: MultiCompanyScraper with driver recovery, and        *)
(* Linkedin_Small.py: the variant without recovery).                        *)
(*                                                                          *)
(* The rendering agent (ChromeDriver + the remote site) is the environment: *)
(* every agent operation either succeeds or raises one of Exceptions, and   *)
(* every successful navigation displays a page the environment chooses.     *)
(***************************************************************************)
EXTENDS Integers, Sequences, FiniteSets, TLC

\* ------------------------------------------------------------------------
\* Program constants
\* ------------------------------------------------------------------------
PAGE_SIZE == 25

\* retries=3 of the page navigations and of recover_driver's first safe_get
RETRIES == 3

\* retries=2 of the safe_get that follows a manual prompt
RETRIES_AFTER_PROMPT == 2

\* retries=2 of the start-of-run safe_get
RETRIES_LOGIN == 2

\* n=10 of _page_signature
SIG_DEPTH == 10

\* ------------------------------------------------------------------------
\* Bounds of the model
\* ------------------------------------------------------------------------
\* most cards the list of one page holds once it is scrolled
MaxCards == 2

\* most cards the list holds before it is scrolled
MaxFirstCards == 1

\* most records the environment lets one run append
MaxJobs == 2

\* page-count ceiling passed as max_pages when one is configured
MaxPages == 2

\* pages of one seed query the model follows when no ceiling is configured
MaxPageCount == 1

\* manual prompts the environment provokes during recoveries of one run
MaxPrompts == 1

\* most cards of a page handed to _page_signature on its own
MaxSigCards == 4

\* largest depth n handed to _page_signature on its own
MaxSigDepth == 2

\* parameters of a query handed to the url helpers
MaxParams == 3

\* cookies in the credential store
MaxCookies == 2

\* postings the search of Indeed.py answers with
MaxRowId == 2

\* rows one call of scrape_company_group sees, and rows of one answer
MaxRows == 3

MaxDfRows == 2

\* Config.checkpoint_every_n_requests, scaled down to the requests of a group
checkpoint_every_n_requests == 2

\* Config.max_workers, scaled down to the groups
MaxWorkers == 2

\* largest Config.max_retries looked at: the delay reaches its ceiling at retry 4
MaxRetries == 5

\* the target of _ensure_cards_loaded and its max_scrolls, scaled down from 25 and 12
MaxPollCount == 3

MaxScrolls == 5

\* calls of atomic_write_json on one path
MaxWrites == 3

\* ------------------------------------------------------------------------
\* Values
\* ------------------------------------------------------------------------
NA == "N/A"

JobIds == {"7", "8"}

DigitStrings == {"7", "8"}

\* a rendered card: the value of its data-job-id attribute ("" when the
\* attribute is absent or not numeric) and whether its text says promoted
CardTypes ==
    { [attr |-> "7", promoted |-> FALSE],
      [attr |-> "8", promoted |-> TRUE],
      [attr |-> "",  promoted |-> FALSE] }

\* the cards _page_signature is tried on by itself: with or without a numeric
\* id attribute, promoted or not
SigCardTypes == [ attr : DigitStrings \cup {""}, promoted : BOOLEAN ]

RECURSIVE SeqsUpTo(_, _)
SeqsUpTo(S, n) ==
    IF n = 0 THEN { <<>> }
    ELSE LET shorter == SeqsUpTo(S, n - 1)
         IN  shorter \cup { Append(s, x) : s \in { t \in shorter : Len(t) = n - 1 }, x \in S }

\* what a successful navigation can display: the cards rendered before the
\* list is scrolled, and whether the empty-results marker is shown
Pages ==
    [ cards : SeqsUpTo(CardTypes, MaxFirstCards), marker : BOOLEAN ]

IsPrefix(s, t) == Len(s) <= Len(t) /\ SubSeq(t, 1, Len(s)) = s

\* the lists _ensure_cards_loaded can end with: scrolling renders further
\* cards after those already shown, or the list is gone
LoadedLists(cards) ==
    { <<>> } \cup { cs \in SeqsUpTo(CardTypes, MaxCards) : cs # <<>> /\ IsPrefix(cards, cs) }

BlankPage == [cards |-> <<>>, marker |-> FALSE]

\* exceptions an agent operation can raise
E_InvalidSession == [type |-> "InvalidSessionIdException", msg |-> "invalid session id"]
E_Disconnected   == [type |-> "WebDriverException", msg |-> "disconnected"]
E_Timeout        == [type |-> "TimeoutException", msg |-> "timeout"]
E_Stale          == [type |-> "StaleElementReferenceException", msg |-> "stale element reference"]

Exceptions == {E_InvalidSession, E_Disconnected, E_Timeout, E_Stale}

DeadMessages ==
    { "invalid session id", "session deleted", "not connected to devtools",
      "disconnected", "chrome not reachable", "httpconnectionpool", "read timed out" }

_is_driver_dead(e) == e.msg \in DeadMessages

\* what the title element of the detail pane can show: the stripped text,
\* its lower-cased form and its length
RenderedTitles ==
    { [text |-> "",       lower |-> "",       len |-> 0],
      [text |-> "Jobs",   lower |-> "jobs",   len |-> 4],
      [text |-> "QA",     lower |-> "qa",     len |-> 2],
      [text |-> "Teller", lower |-> "teller", len |-> 6],
      [text |-> "LongBanner", lower |-> "longbanner", len |-> 200] }

\* the crawl targets of a run: Linkedin_Large gives each company a list of
\* seed urls, Linkedin_Small one url
Companies(v) ==
    IF v = "Large"
    THEN << [name |-> "TD", urls |-> <<"td1", "td2">>],
            [name |-> "CIBC", urls |-> <<"cibc1">>] >>
    ELSE << [name |-> "Fairstone Bank", urls |-> <<"fs1">>],
            [name |-> "Questrade Financial Group", urls |-> <<"qt1">>] >>

\* ------------------------------------------------------------------------
\* Pure helpers
\* ------------------------------------------------------------------------
\* faulty variant of StartOf: page 1 is taken to sit one page size in
StartOf_fromOne(pageCount) == pageCount * PAGE_SIZE

\* offset of page number page_count: start = (page_count - 1) * PAGE_SIZE
StartOf(pageCount) == (pageCount - 1) * PAGE_SIZE

\* Linkedin_Small: next_start = page_count * 25
NextStartOf(pageCount) == pageCount * 25

\* _get_listing_anchor_id: the numeric attribute value, "" for None
_get_listing_anchor_id(card) ==
    IF card.attr # "" /\ card.attr \in DigitStrings THEN card.attr ELSE ""

\* faulty variant of _is_promoted_card: no card is taken for promoted
_is_promoted_card_never(card) == FALSE

_is_promoted_card(card) == card.promoted

\* one pass of _page_signature over cards[i..]: collects ids until n are held
RECURSIVE SignaturePass(_, _, _, _, _)
SignaturePass(cards, i, ids, n, skipPromoted) ==
    IF i > Len(cards) THEN ids
    ELSE IF skipPromoted /\ _is_promoted_card(cards[i])
         THEN SignaturePass(cards, i + 1, ids, n, skipPromoted)
         ELSE LET jid  == _get_listing_anchor_id(cards[i])
                  ids2 == IF jid # "" THEN Append(ids, jid) ELSE ids
              IN  IF Len(ids2) >= n THEN ids2
                  ELSE SignaturePass(cards, i + 1, ids2, n, skipPromoted)

\* faulty variant of _page_signature: the second pass is left out
_page_signature_noFallback(cards, n) == SignaturePass(cards, 1, <<>>, n, TRUE)

_page_signature(cards, n) ==
    LET ids == SignaturePass(cards, 1, <<>>, n, TRUE)
    IN  IF ids = <<>> THEN SignaturePass(cards, 1, <<>>, n, FALSE) ELSE ids

\* prev_sig: None before the first page of a seed query
NoSig == [set |-> FALSE, ids |-> <<>>]

SomeSig(ids) == [set |-> TRUE, ids |-> ids]

\* faulty variant of SignatureRepeated: the emptiness test is left out
SignatureRepeated_emptyToo(sig, prev) == prev.set /\ sig = prev.ids

\* the test `sig and sig == prev_sig` of scrape_single_url
SignatureRepeated(sig, prev) == sig # <<>> /\ prev.set /\ sig = prev.ids

\* faulty variant of FirstIdRepeated: no first id is taken for seen
FirstIdRepeated_never(first, seen) == FALSE

\* the test of scrape_single_company on the first card's id
FirstIdRepeated(first, seen) == first # "" /\ first \in seen

\* _extract_title on the rendered title element
_extract_title(t) ==
    IF t.text # "" /\ 3 < t.len /\ t.len < 200 /\ t.lower # "jobs" THEN t.text ELSE NA

\* _job_permalink: the canonical url of a record id
_job_permalink(job_id) ==
    IF job_id # "" /\ job_id # NA THEN <<"https://www.linkedin.com/jobs/view/", job_id, "/">>
    ELSE <<NA>>

\* what else the query of the browser url holds besides currentJobId
UrlNoise == {"&refId=a", "&refId=b"}

\* the browser url after a card was activated: the search url, whose
\* currentJobId parameter holds the id, followed by the other parameters
BrowserUrl(job_id, noise) ==
    <<"https://www.linkedin.com/jobs/search/?currentJobId=", job_id, noise>>

\* the urls _extract_job_id_from_url reads job_id from; "N/A" is read from
\* a url that holds no id
BrowserUrls(job_id) ==
    { BrowserUrl(IF job_id = NA THEN "" ELSE job_id, noise) : noise \in UrlNoise }

\* the "url" field of a record: Linkedin_Large stores the permalink of the
\* id, Linkedin_Small the browser url it read the id from
UrlField(v, job_url, job_id) ==
    IF v = "Large" THEN _job_permalink(job_id)
    ELSE IF job_id # NA THEN job_url ELSE <<NA>>

Min(a, b) == IF a < b THEN a ELSE b

\* exceptions an agent operation can raise on a driver that is alive or dead
DriverFaults(alive) ==
    IF alive THEN Exceptions ELSE { e \in Exceptions : _is_driver_dead(e) }

\* an agent operation returns (NoException) or raises; a dead driver only raises
NoException == [type |-> "none", msg |-> ""]

OpOutcomes(alive) == (IF alive THEN {NoException} ELSE {}) \cup DriverFaults(alive)

\* whether the driver still answers after raising e
AliveAfter(e) ==
    IF e = E_InvalidSession THEN {FALSE}
    ELSE IF _is_driver_dead(e) THEN {TRUE, FALSE}
    ELSE {TRUE}

\* safe_get from attempt number `attempt`: every dead failure restarts the
\* driver and goes on to the next attempt, any other failure returns False.
\* fatals counts the dead failures, alive is the driver on return.
RECURSIVE safe_get_from(_, _, _, _)
safe_get_from(attempt, retries, alive, fatals) ==
    IF attempt > retries
    THEN { [ok |-> FALSE, fatals |-> fatals, exhausted |-> TRUE] }
    ELSE UNION { IF e = NoException
                 THEN { [ok |-> TRUE, fatals |-> fatals, exhausted |-> FALSE] }
                 ELSE IF _is_driver_dead(e)
                      THEN safe_get_from(attempt + 1, retries, TRUE, fatals + 1)
                      ELSE { [ok |-> FALSE, fatals |-> fatals, exhausted |-> FALSE] }
               : e \in OpOutcomes(alive) }

safe_get(retries, alive) == safe_get_from(1, retries, alive, 0)

\* ------------------------------------------------------------------------
\* State
\* ------------------------------------------------------------------------
VARIABLES
    variant,          \* "Large" or "Small": which scraper runs
    max_pages,        \* max_pages argument, 0 for None
    pc,               \* position of the controller
    ci, ui,           \* index of the company and of its seed url
    page_count,       \* page_count of the per-seed loop
    start,            \* offset of the page the loop is at
    prev_sig,         \* prev_sig of scrape_single_url
    seen_first_listing_ids, \* of scrape_single_company
    pageOne,          \* the cards page 1 showed at its end test, until that of page 2
    ei,               \* index i of the card loop of _extract_jobs_on_page
    prev_job_id,      \* prev_job_id of _extract_jobs_on_page
    limit,            \* number of cards the card loop visits
    jobs,             \* self.jobs
    company_counts,   \* self.company_counts
    file,             \* the output file of save_results
    driverAlive,      \* whether the current driver session answers
    shownStart,       \* offset of the url the driver displays to the crawl
    page,             \* the rendering the page loop looks at
    loggedOut,        \* whether that rendering is a login/checkpoint page
    cookieStore,      \* whether linkedin_cookies.json exists
    startPrompts,     \* manual confirmations awaited at the start of the run
    recoveryPrompts,  \* manual confirmations awaited inside recover_driver
    requested,        \* offset of the last url requested in this seed query
    resumeAt,         \* offset a recovery resumed at, until a page is extracted
    consecFatal,      \* dead failures in a row when a seed query was abandoned
    attempted,        \* seed queries whose crawl was entered
    seedOutcome,      \* how the last per-seed crawl ended
    raisedAt,         \* the exception that left the controller, if one did
    lastSaved,        \* content of the last completed checkpoint write
    callLog,          \* what the login or recovery helper called in the last step did
    sigCards,         \* cards of a page handed to _page_signature on its own
    sigN,             \* the depth n handed to it
    sigOut,           \* the tuple it returned
    navQuery,         \* query of a seed url handed to the url helpers on their own
    navStart,         \* the offset to stamp on it
    navOut,           \* the query of the url they returned
    sess,             \* a call of _ensure_logged_in_once or recover_driver, step by step
    ing,              \* a call of scrape_company_group of Indeed.py, row by row
    pool,             \* main of Indeed.py and the threads of its pool, step by step
    grp,              \* the requests of a call of scrape_company_group, one by one
    req,              \* a call of scrape_with_retries, attempt by attempt
    cardPoll,         \* a call of _ensure_cards_loaded, poll by poll
    awj,              \* a call of atomic_write_json and the files it touches
    agg               \* main of Indeed.py taking the futures, group by group

\* the input and the result of a call of _page_signature on its own
sigVars == <<sigCards, sigN, sigOut>>

\* the input and the result of a call of the url helpers on their own
navVars == <<navQuery, navStart, navOut>>

\* the helpers looked at on their own
\* the parts of Indeed.py and of the scrapers looked at on their own
partVars == <<grp, req, cardPoll, awj, agg>>

unitVars == <<sigVars, navVars, sess, ing, pool, partVars>>

\* what no step of a run changes
cfgVars == <<variant, max_pages, unitVars>>
loopVars == <<page_count, start, prev_sig, seen_first_listing_ids, pageOne>>
cardVars == <<ei, prev_job_id, limit>>
outVars == <<jobs, company_counts>>
fileVars == <<file, lastSaved>>
obsVars == <<shownStart, page, loggedOut>>
authVars == <<cookieStore, startPrompts, recoveryPrompts>>
\* everything that belongs to the per-seed crawl in progress
seedVars == <<loopVars, cardVars, obsVars, driverAlive, requested, resumeAt, consecFatal,
              seedOutcome, raisedAt>>

vars == <<cfgVars, pc, ci, ui, outVars, fileVars, authVars, callLog, attempted, seedVars>>

NoOffset == 0 - 1

NotRaised == [site |-> "none", dead |-> FALSE, offset |-> NoOffset]

AbsentFile == [exists |-> FALSE, recs |-> <<>>, complete |-> TRUE]

\* what the driver displays after a successful navigation
\* what a logged-out session is shown: the login or checkpoint page, or the
\* guest view of the search with its sign-in and join prompts around a list
GuestPage == [cards |-> << [attr |-> "7", promoted |-> FALSE] >>, marker |-> FALSE]

Displays ==
    { [page |-> p, loggedOut |-> FALSE] : p \in Pages }
        \cup { [page |-> p, loggedOut |-> TRUE] : p \in {BlankPage, GuestPage} }

BlankDisplay == [page |-> BlankPage, loggedOut |-> FALSE]

\* faulty variant of _looks_logged_out: no page is taken for a login page
_looks_logged_out_never(alive, lo) == FALSE

\* _looks_logged_out: any exception inside it reads as "not logged out"
_looks_logged_out(alive, lo) == alive /\ lo

\* entries of callLog
InSeq(x, s) == \E i \in 1..Len(s) : s[i] = x

Count(x, s) == Cardinality({ i \in 1..Len(s) : s[i] = x })

\* _load_cookies returns False when linkedin_cookies.json does not exist
LoadCookiesTag(stored) == IF stored THEN "load_cookies:True" ELSE "load_cookies:False"

\* how a call of safe_get ended: True, False at its first attempt on an
\* exception that is not a dead driver, or False after it met a dead driver
SafeGetTag(sg) ==
    IF sg.ok THEN "safe_get:True"
    ELSE IF ~sg.exhausted /\ sg.fatals = 0 THEN "safe_get:transient"
    ELSE "safe_get:dead"

SafeGetTags == { "safe_get:True", "safe_get:transient", "safe_get:dead" }

\* what the page shows that _looks_logged_out looks at
PageTag(lo) == IF lo THEN "page:logged_out" ELSE "page:logged_in"

\* no helper is called in this step
NoCall == callLog' = <<>>

\* faulty variant of _ensure_logged_in_once: a session that looks logged in
\* starts without confirmation
_ensure_logged_in_once_unconfirmed(loaded, sg, lo) ==
    <<LoadCookiesTag(loaded), SafeGetTag(sg), PageTag(lo)>>
        \o (IF _looks_logged_out(TRUE, lo) THEN <<"input", "save_cookies">> ELSE <<>>)

\* _ensure_logged_in_once: the calls it makes, in order. The result of
\* safe_get is not looked at, and input() is called on both branches.
_ensure_logged_in_once(loaded, sg, lo) ==
    <<LoadCookiesTag(loaded), SafeGetTag(sg), PageTag(lo)>>
        \o (IF _looks_logged_out(TRUE, lo) THEN <<"input", "save_cookies">> ELSE <<"input">>)

Seeds(v) ==
    UNION { { <<c, u>> : u \in 1..Len(Companies(v)[c].urls) } : c \in 1..Len(Companies(v)) }

\* the scraper object after __init__
NewScraper ==
    /\ ci = 1 /\ ui = 1
    /\ page_count = 0 /\ start = 0
    /\ prev_sig = NoSig
    /\ seen_first_listing_ids = {}
    /\ pageOne = <<>>
    /\ ei = 0 /\ prev_job_id = NA /\ limit = 0
    /\ jobs = <<>>
    /\ company_counts = [c \in {} |-> 0]
    /\ file = AbsentFile /\ lastSaved = AbsentFile
    /\ driverAlive = TRUE
    /\ shownStart = NoOffset
    /\ page = BlankPage
    /\ loggedOut = FALSE
    /\ cookieStore \in BOOLEAN
    /\ startPrompts = 0 /\ recoveryPrompts = 0
    /\ callLog = <<>>
    /\ requested = NoOffset /\ resumeAt = NoOffset
    /\ consecFatal = 0
    /\ attempted = {}
    /\ seedOutcome = "none"
    /\ raisedAt = NotRaised

\* no helper is being looked at on its own
SigIdle == sigCards = <<>> /\ sigN = SIG_DEPTH /\ sigOut = <<>>

NavIdle == navQuery = <<>> /\ navStart = 0 /\ navOut = <<>>

MissingStore == [exists |-> FALSE, parses |-> FALSE, entries |-> <<>>]

NoSession ==
    [ call |-> "none", at |-> "idle", given |-> MissingStore, store |-> MissingStore,
      alive |-> FALSE, loaded |-> "unset", opened |-> FALSE, attempt |-> 0, retries |-> 0,
      gets |-> 0, gaps |-> <<>>, prompts |-> 0, result |-> "none" ]

SessIdle == sess = NoSession

\* a row counted as seen before any row came
GroupStats_oneSeen ==
    [ requests |-> 0, rows_seen |-> 1, added |-> 0, deduped |-> 0,
      dropped_company_mismatch |-> 0, dropped_missing_anchor |-> 0, errors |-> 0 ]

\* GroupStats of Indeed.py
GroupStats ==
    [ requests |-> 0, rows_seen |-> 0, added |-> 0, deduped |-> 0,
      dropped_company_mismatch |-> 0, dropped_missing_anchor |-> 0, errors |-> 0 ]

NoOutput == [exists |-> FALSE, jobs |-> <<>>]

NoIngest ==
    [ at |-> "idle", group |-> 0, enforce |-> FALSE, df_left |-> 0, rows |-> <<>>,
      jobs |-> <<>>, seen |-> {}, mismatch_example |-> <<>>, stats |-> GroupStats,
      output |-> NoOutput ]

IngestIdle == ing = NoIngest

NoWrite == [path |-> <<>>, step |-> "none"]

NoPool ==
    [ at |-> "idle", cg |-> 0, max_workers |-> 0, fut |-> <<>>, queue |-> <<>>,
      worker |-> <<>>, write |-> NoWrite, example |-> {}, yielded |-> {},
      group_summaries |-> <<>>, mismatch_examples |-> {}, files |-> {} ]

PoolIdle == pool = NoPool

NotCalled == [at |-> "idle"]

GrpIdle == grp = NotCalled

ReqIdle == req = NotCalled

PollIdle == cardPoll = NotCalled

AwjIdle == awj = NotCalled

AggIdle == agg = NotCalled

PartsIdle == GrpIdle /\ ReqIdle /\ PollIdle /\ AwjIdle /\ AggIdle

\* a scraper object that is constructed and not run
Standby(position) ==
    /\ variant = "Large"
    /\ max_pages = 0
    /\ pc = position
    /\ NewScraper
    /\ cookieStore = FALSE

\* everything of the scraper object but the position of its controller
runVars == <<variant, max_pages, ci, ui, outVars, fileVars, authVars, callLog, attempted,
             seedVars>>

Init ==
    /\ variant \in {"Large", "Small"}
    /\ max_pages \in {0, MaxPages}
    /\ pc = "init"
    /\ NewScraper
    /\ SigIdle /\ NavIdle /\ SessIdle /\ IngestIdle /\ PoolIdle /\ PartsIdle

\* ------------------------------------------------------------------------
\* Results of the helpers that talk to the agent
\* ------------------------------------------------------------------------
\* _wait_for_results_or_end on a rendered page: cards are looked for first,
\* the empty-results marker only when there is no card; a timeout is False
_wait_for_results_or_end(p) ==
    IF p.cards # <<>> THEN TRUE
    ELSE IF p.marker THEN FALSE
    ELSE FALSE

\* _ensure_cards_loaded: True when the page size is reached or at least one
\* card is rendered when the poll loop stops
_ensure_cards_loaded(cards) == Len(cards) >= PAGE_SIZE \/ Len(cards) > 0

\* _wait_for_url_job_change: polls holds the ids the url showed at the polls
\* of the loop, final the id it shows at the read after the timeout. The first
\* polled id that is an id other than previous_job_id is returned at once,
\* else whatever the url shows at the timeout.
RECURSIVE _wait_for_url_job_change(_, _, _)
_wait_for_url_job_change(previous_job_id, polls, final) ==
    IF polls = <<>> THEN final
    ELSE IF Head(polls) # NA /\ Head(polls) # previous_job_id THEN Head(polls)
    ELSE _wait_for_url_job_change(previous_job_id, Tail(polls), final)

\* recover_driver(url): restart, reload cookies, safe_get(url, 3); on a
\* logged-out page prompt once, save cookies and safe_get(url, 2).
\* fatals are the dead failures since the last successful load, reset says
\* a load succeeded inside the call.
recover_driver(mayChallenge) ==
    UNION { LET first == <<"create_driver", "load_cookies", SafeGetTag(sg1)>>
            IN  IF ~sg1.ok
                THEN { [ok |-> FALSE, fatals |-> sg1.fatals, reset |-> FALSE,
                        prompted |-> FALSE, display |-> BlankDisplay, steps |-> first] }
                ELSE UNION { IF _looks_logged_out(TRUE, d1.loggedOut)
                             THEN UNION { LET steps == first \o <<PageTag(d1.loggedOut), "input",
                                                                  "save_cookies", SafeGetTag(sg2)>>
                                          IN  IF sg2.ok
                                              THEN { [ok |-> TRUE, fatals |-> 0, reset |-> TRUE,
                                                      prompted |-> TRUE, display |-> d2,
                                                      steps |-> steps] : d2 \in Displays }
                                              ELSE { [ok |-> FALSE, fatals |-> sg2.fatals,
                                                      reset |-> TRUE, prompted |-> TRUE,
                                                      display |-> BlankDisplay, steps |-> steps] }
                                        : sg2 \in safe_get(RETRIES_AFTER_PROMPT, TRUE) }
                             ELSE { [ok |-> TRUE, fatals |-> 0, reset |-> TRUE,
                                     prompted |-> FALSE, display |-> d1,
                                     steps |-> Append(first, PageTag(d1.loggedOut))] }
                           : d1 \in { d \in Displays : d.loggedOut => mayChallenge } }
          : sg1 \in safe_get(RETRIES, TRUE) }

\* ------------------------------------------------------------------------
\* Steps shared by the actions. An action leaves the per-seed crawl by
\* EndSeed (it returns) or Raise (an exception leaves it), and stays in it
\* by GoOn.
\* ------------------------------------------------------------------------
GoOn(where) == pc' = where /\ UNCHANGED <<seedOutcome, raisedAt>>

\* the locals of the crawl are gone once it is left, and what the browser
\* rendered for it is not looked at again
LeaveCrawl ==
    /\ page_count' = 0 /\ start' = 0 /\ prev_sig' = NoSig
    /\ seen_first_listing_ids' = {}
    /\ pageOne' = <<>>
    /\ ei' = 0 /\ prev_job_id' = NA /\ limit' = 0
    /\ shownStart' = NoOffset /\ page' = BlankPage /\ loggedOut' = FALSE
    /\ requested' = NoOffset /\ resumeAt' = NoOffset

\* return / break of the per-seed crawl
EndSeed(outcome, fatals, alive) ==
    /\ pc' = "seedDone"
    /\ seedOutcome' = outcome
    /\ consecFatal' = fatals
    /\ driverAlive' = alive
    /\ LeaveCrawl
    /\ UNCHANGED raisedAt

\* an exception leaves the per-seed crawl: scrape_all_companies has no
\* except clause, its finally clause quits the driver
Raise(site, e, off) ==
    /\ pc' = "raised"
    /\ raisedAt' = [site |-> site, dead |-> _is_driver_dead(e), offset |-> off]
    /\ seedOutcome' = "raised"
    /\ consecFatal' = 0
    /\ driverAlive' = FALSE
    /\ LeaveCrawl

\* a display and the outcome of the wait that follows it: when the wait
\* raises, what the page showed plays no part
Renderings ==
    { [d |-> d, w |-> NoException] : d \in Displays }
        \cup { [d |-> BlankDisplay, w |-> e] : e \in Exceptions }

\* faulty variant of WaitOutcome: the logged-out check is left out
WaitOutcome_noAuthCheck(d, w) ==
    IF w # NoException THEN "raised"
    ELSE IF _wait_for_results_or_end(d.page) THEN "results"
    ELSE "end"

\* lines 676-682 and 703-709: the logged-out check, then the wait for results
WaitOutcome(d, w) ==
    IF _looks_logged_out(TRUE, d.loggedOut) THEN "loggedOut"
    ELSE IF w # NoException THEN "raised"
    ELSE IF _wait_for_results_or_end(d.page) THEN "results"
    ELSE "end"

\* what the page loop does with the page loaded at offset `start`
AfterLoad(d, w, resumed, emptyOutcome, where) ==
    LET o == WaitOutcome(d, w)
    IN  CASE o = "loggedOut" -> EndSeed("loggedOut", 0, TRUE)
          [] o = "raised"    -> Raise("waitRender", w, start)
          [] o = "end"       -> EndSeed(emptyOutcome, 0, TRUE)
          [] o = "results"   ->
                /\ GoOn(where)
                /\ shownStart' = start
                /\ page' = d.page
                /\ loggedOut' = d.loggedOut
                /\ driverAlive' = TRUE
                /\ requested' = start
                /\ resumeAt' = resumed
                /\ UNCHANGED <<loopVars, cardVars, consecFatal>>

\* the bookkeeping of a manual prompt inside recover_driver
NotePrompt(r) ==
    /\ recoveryPrompts' = recoveryPrompts + (IF r.prompted THEN 1 ELSE 0)
    /\ cookieStore' = (cookieStore \/ r.prompted)
    /\ UNCHANGED startPrompts

\* the except branches of lines 715-721 and 736-742: a dead driver is
\* recovered on self.driver.current_url and the loop continues, any other
\* exception is raised again. alive: whether the old driver still answers
\* when its current_url is read. What the recovered driver renders is not
\* read: after `continue` the loop navigates (page_count > 1) before any
\* card is looked for.
RecoverAndContinue(site, e, alive) ==
    IF ~_is_driver_dead(e)
    THEN Raise(site, e, start) /\ UNCHANGED authVars /\ NoCall
    ELSE IF ~alive
    THEN Raise("current_url", e, start) /\ UNCHANGED authVars /\ NoCall
    ELSE \E r \in { [x EXCEPT !.display = BlankDisplay]
                     : x \in recover_driver(recoveryPrompts < MaxPrompts) } :
         /\ NotePrompt(r)
         /\ callLog' = r.steps
         /\ IF r.ok
            THEN /\ GoOn("loopTop")
                 /\ driverAlive' = TRUE
                 /\ page' = BlankPage
                 /\ loggedOut' = FALSE
                 /\ requested' = shownStart
                 /\ resumeAt' = shownStart
                 /\ ei' = 0 /\ prev_job_id' = NA /\ limit' = 0
                 /\ UNCHANGED <<loopVars, shownStart, consecFatal>>
            ELSE EndSeed("abandoned", (IF r.reset THEN 0 ELSE 1) + r.fatals, TRUE)

\* Linkedin_Small, lines 565-568: InvalidSessionIdException is raised again,
\* every other exception is logged and the per-company crawl returns
LogAndReturn(site, e, off, alive) ==
    IF e.type = "InvalidSessionIdException"
    THEN Raise(site, e, off)
    ELSE EndSeed("error", 0, alive)

\* ------------------------------------------------------------------------
\* Linkedin_Large: scrape_all_companies / scrape_single_url
\* ------------------------------------------------------------------------
\* a variant that starts the count of the company again at every seed query
SetDefault_reset(counts, name) ==
    [c \in DOMAIN counts \cup {name} |-> IF c = name THEN 0 ELSE counts[c]]

\* self.company_counts.setdefault(company_name, 0)
SetDefault(counts, name) ==
    IF name \in DOMAIN counts THEN counts
    ELSE [c \in DOMAIN counts \cup {name} |-> IF c = name THEN 0 ELSE counts[c]]

\* _ensure_logged_in_once: the result of safe_get is not looked at, and the
\* manual confirmation is awaited on both branches
EnsureLoggedInOnce ==
    /\ pc = "init" /\ variant = "Large"
    /\ \E sg \in safe_get(RETRIES_LOGIN, driverAlive), d \in Displays :
         /\ (~sg.ok => d = BlankDisplay)
         /\ LET steps == _ensure_logged_in_once(cookieStore, sg, d.loggedOut)
            IN  /\ callLog' = steps
                /\ startPrompts' = startPrompts + Count("input", steps)
                /\ cookieStore' = (cookieStore \/ InSeq("save_cookies", steps))
    /\ GoOn("seed")
    /\ UNCHANGED <<cfgVars, ci, ui, outVars, fileVars, recoveryPrompts, attempted,
                   loopVars, cardVars, obsVars, driverAlive, requested, resumeAt,
                   consecFatal>>

\* lines 639-641 and 667-685: open the seed url at start=0
OpenSeedUrl ==
    /\ pc = "seed" /\ variant = "Large"
    /\ company_counts' = SetDefault(company_counts, Companies(variant)[ci].name)
    /\ attempted' = attempted \cup {<<ci, ui>>}
    /\ \E sg \in safe_get(RETRIES, driverAlive) :
         IF ~sg.ok
         THEN EndSeed("openFailed", sg.fatals, TRUE)
         ELSE \E r \in Renderings : AfterLoad(r.d, r.w, NoOffset, "noResults", "loopTop")
    /\ UNCHANGED <<cfgVars, ci, ui, jobs, fileVars, authVars>> /\ NoCall

\* a variant of the ceiling test that lets one more page through
PageLimitReached_offByOne(maxPages, pageCount) ==
    maxPages # 0 /\ pageCount > maxPages + 1

\* `if max_pages and page_count > max_pages: break`, pageCount being the
\* page_count the iteration has just incremented
PageLimitReached(maxPages, pageCount) ==
    maxPages # 0 /\ pageCount > maxPages

\* lines 688-695: the head of the page loop
LoopTop ==
    /\ pc = "loopTop" /\ variant = "Large"
    /\ (max_pages = 0 => page_count < MaxPageCount)
    /\ IF PageLimitReached(max_pages, page_count + 1)
       THEN EndSeed("pageLimit", 0, driverAlive)
       ELSE /\ page_count' = page_count + 1
            /\ start' = StartOf(page_count')
            /\ GoOn(IF page_count' > 1 THEN "navigate" ELSE "cards")
            /\ UNCHANGED <<prev_sig, seen_first_listing_ids, pageOne, cardVars, obsVars,
                           driverAlive, requested, resumeAt, consecFatal>>
    /\ UNCHANGED <<cfgVars, ci, ui, outVars, fileVars, authVars, attempted>> /\ NoCall

\* lines 695-709: load the next page, recovering once when safe_get fails
NavigateNextPage ==
    /\ pc = "navigate" /\ variant = "Large"
    /\ \E sg \in safe_get(RETRIES, driverAlive) :
         IF sg.ok
         THEN /\ \E r \in Renderings : AfterLoad(r.d, r.w, NoOffset, "endDetected", "cards")
              /\ UNCHANGED authVars /\ NoCall
         ELSE \E rec \in recover_driver(recoveryPrompts < MaxPrompts) :
              /\ NotePrompt(rec)
              /\ callLog' = <<SafeGetTag(sg)>> \o rec.steps
              /\ IF ~rec.ok
                 THEN EndSeed("abandoned",
                              (IF rec.reset THEN 0 ELSE sg.fatals) + rec.fatals, TRUE)
                 ELSE \E w \in {NoException} \cup
                                (IF rec.display = BlankDisplay THEN Exceptions ELSE {}) :
                      AfterLoad(rec.display, w, start, "endDetected", "cards")
    /\ UNCHANGED <<cfgVars, ci, ui, outVars, fileVars, attempted>>

\* lines 711-721: make the cards of the page load. The empty-results marker
\* is not looked for again once the wait for results is over.
EnsureCardsLoaded ==
    /\ pc = "cards" /\ variant = "Large"
    /\ \E e \in OpOutcomes(driverAlive) :
         IF e = NoException
         THEN /\ \E cs \in LoadedLists(page.cards) :
                   IF _ensure_cards_loaded(cs)
                   THEN /\ GoOn("signature")
                        /\ page' = [cards |-> cs, marker |-> FALSE]
                        /\ UNCHANGED <<loopVars, cardVars, shownStart, loggedOut,
                                       driverAlive, requested, resumeAt, consecFatal>>
                   ELSE EndSeed("noCards", 0, driverAlive)
              /\ UNCHANGED authVars /\ NoCall
         ELSE \E a \in AliveAfter(e) : RecoverAndContinue("cards", e, a)
    /\ UNCHANGED <<cfgVars, ci, ui, outVars, fileVars, attempted>>

\* lines 723-732: the end test on the page signature
CheckSignature ==
    /\ pc = "signature" /\ variant = "Large"
    /\ \E e \in OpOutcomes(driverAlive) :
         IF e # NoException
         THEN Raise("signature", e, start)
         ELSE IF page.cards = <<>>
         THEN EndSeed("noCards", 0, driverAlive)
         ELSE LET sig == _page_signature(page.cards, SIG_DEPTH)
              IN  IF SignatureRepeated(sig, prev_sig)
                  THEN EndSeed("signatureRepeated", 0, driverAlive)
                  ELSE /\ prev_sig' = SomeSig(sig)
                       /\ pageOne' = (IF page_count = 1 THEN page.cards ELSE <<>>)
                       /\ GoOn("extract")
                       /\ UNCHANGED <<page_count, start, seen_first_listing_ids, cardVars,
                                      obsVars, driverAlive, requested, resumeAt,
                                      consecFatal>>
    /\ UNCHANGED <<cfgVars, ci, ui, outVars, fileVars, authVars, attempted>> /\ NoCall

\* ------------------------------------------------------------------------
\* _extract_jobs_on_page (both scrapers)
\* ------------------------------------------------------------------------
UrlIds == JobIds \cup {NA}

\* an exception that leaves _extract_jobs_on_page
ExtractionFault(e, alive) ==
    IF variant = "Large"
    THEN RecoverAndContinue("extract", e, alive)
    ELSE LogAndReturn("extract", e, start, alive) /\ UNCHANGED authVars /\ NoCall

\* whether the card loop re-raises e (else it goes on to the next card)
CardLoopRaises(v, e) ==
    IF e.type \in {"StaleElementReferenceException", "TimeoutException"} THEN FALSE
    ELSE IF v = "Large" THEN _is_driver_dead(e)
    ELSE e.type = "InvalidSessionIdException"

\* the record appended for a loaded detail pane
JobData(v, title, name, job_url, job_id, count) ==
    [ title |-> title, company |-> name, url |-> UrlField(v, job_url, job_id),
      job_id |-> job_id, company_job_count |-> count ]

\* what the card loop reads once a card is activated: the id
\* _wait_for_url_job_change returns for the ids the url shows and the url it
\* read that id from, whether the detail pane loads, and the title
\* _extract_title returns (looked at only when the pane loaded)
PaneReads(previous_job_id) ==
    UNION { { [ job_id  |-> job_id,
                job_url |-> job_url,
                loaded  |-> loaded,
                title   |-> IF loaded THEN _extract_title(t) ELSE NA ]
              : job_url \in BrowserUrls(job_id), loaded \in BOOLEAN, t \in RenderedTitles }
            : job_id \in { _wait_for_url_job_change(previous_job_id, <<poll>>, final)
                           : poll \in UrlIds, final \in UrlIds } }

\* lines 748-754 (Small 571-576): the cards and the id the url holds. The
\* card loop finds the cards again at every iteration, so the rendering the
\* page loop saw is not read past this point.
ExtractBegin ==
    /\ pc = "extract"
    /\ \E e \in OpOutcomes(driverAlive) :
         IF e = NoException
         THEN /\ IF page.cards = <<>>
                 THEN GoOn("save") /\ UNCHANGED cardVars
                 ELSE /\ GoOn("card")
                      /\ ei' = 1
                      /\ limit' = IF variant = "Large"
                                  THEN Min(Len(page.cards), PAGE_SIZE)
                                  ELSE Len(page.cards)
                      /\ prev_job_id' \in UrlIds
              /\ resumeAt' = NoOffset
              /\ page' = BlankPage
              /\ loggedOut' = FALSE
              /\ UNCHANGED <<loopVars, shownStart, driverAlive, requested,
                             consecFatal, authVars>> /\ NoCall
         ELSE \E a \in AliveAfter(e) : ExtractionFault(e, a)
    /\ UNCHANGED <<cfgVars, ci, ui, outVars, fileVars, attempted>>

\* the end of one iteration of the card loop; its locals are gone when the
\* loop is left
NextCard(job_id) ==
    IF ei + 1 > limit
    THEN GoOn("save") /\ ei' = 0 /\ prev_job_id' = NA /\ limit' = 0
    ELSE GoOn("card") /\ ei' = ei + 1 /\ prev_job_id' = job_id /\ UNCHANGED limit

\* the record is put in front of the list
AppendJob_front(js, job_data) == <<job_data>> \o js

\* line 799 (Small 619): self.jobs.append(job_data)
AppendJob(js, job_data) == Append(js, job_data)

\* lines 756-807 (Small 578-627): one iteration of the card loop
ExtractCard ==
    /\ pc = "card"
    /\ \/ \* an agent operation raises
          \E e \in DriverFaults(driverAlive) :
             IF CardLoopRaises(variant, e)
             THEN /\ \E a \in AliveAfter(e) : ExtractionFault(e, a)
                  /\ UNCHANGED outVars
             ELSE /\ NextCard(prev_job_id)
                  /\ driverAlive' \in AliveAfter(e)
                  /\ UNCHANGED <<outVars, loopVars, obsVars, authVars, requested,
                                 resumeAt, consecFatal>> /\ NoCall
       \/ \* fewer cards are rendered than when the loop began
          /\ driverAlive
          /\ GoOn("save")
          /\ ei' = 0 /\ prev_job_id' = NA /\ limit' = 0
          /\ UNCHANGED <<outVars, loopVars, obsVars, driverAlive, authVars, requested,
                         resumeAt, consecFatal>> /\ NoCall
       \/ \* the click fails
          /\ driverAlive
          /\ NextCard(prev_job_id)
          /\ UNCHANGED <<outVars, loopVars, obsVars, driverAlive, authVars, requested,
                         resumeAt, consecFatal>> /\ NoCall
       \/ \* the card is activated
          /\ driverAlive
          /\ \E r \in PaneReads(prev_job_id) :
               LET job_id == r.job_id
                   title  == r.title
                   name   == Companies(variant)[ci].name
                   count  == company_counts[name] + 1
               IN  /\ NextCard(job_id)
                   /\ IF ~r.loaded \/ title = NA
                      THEN UNCHANGED outVars
                      ELSE /\ Len(jobs) < MaxJobs
                           /\ company_counts' = [company_counts EXCEPT ![name] = count]
                           /\ jobs' = AppendJob(jobs,
                                 JobData(variant, title, name, r.job_url, job_id, count))
          /\ UNCHANGED <<loopVars, obsVars, driverAlive, authVars, requested, resumeAt,
                         consecFatal>> /\ NoCall
    /\ UNCHANGED <<cfgVars, ci, ui, fileVars, attempted>>

\* ------------------------------------------------------------------------
\* save_results: open(json_path, "w") truncates the file, json.dump writes
\* the list piece by piece, leaving the with block closes the file
\* ------------------------------------------------------------------------
SaveOpen ==
    /\ pc = "save"
    /\ file' = [exists |-> TRUE, recs |-> <<>>, complete |-> FALSE]
    /\ pc' = "saving"
    /\ UNCHANGED <<cfgVars, ci, ui, outVars, lastSaved, authVars, attempted, seedVars>> /\ NoCall

SaveWrite ==
    /\ pc = "saving"
    /\ Len(file.recs) < Len(jobs)
    /\ file' = [file EXCEPT !.recs = Append(@, jobs[Len(@) + 1])]
    /\ UNCHANGED <<cfgVars, pc, ci, ui, outVars, lastSaved, authVars, attempted, seedVars>> /\ NoCall

SaveClose ==
    /\ pc = "saving"
    /\ Len(file.recs) = Len(jobs)
    /\ file' = [file EXCEPT !.complete = TRUE]
    /\ lastSaved' = file'
    /\ pc' = IF variant = "Large" THEN "loopTop" ELSE "navigateSmall"
    /\ UNCHANGED <<cfgVars, ci, ui, outVars, authVars, attempted, seedVars>> /\ NoCall

\* the process is interrupted while the output file is open for writing
InterruptWrite ==
    /\ pc = "saving"
    /\ pc' = "killed"
    /\ seedOutcome' = "killed"
    /\ consecFatal' = 0
    /\ driverAlive' = FALSE
    /\ LeaveCrawl
    /\ UNCHANGED <<cfgVars, ci, ui, outVars, fileVars, authVars, attempted, raisedAt>> /\ NoCall

\* lines 638-659 (Small 484-504): the per-seed crawl has returned and the
\* loops go on to the next seed url, the next company; after the last one
\* the finally clause quits the driver
NextSeed ==
    /\ pc = "seedDone"
    /\ IF ui < Len(Companies(variant)[ci].urls)
       THEN ui' = ui + 1 /\ ci' = ci /\ pc' = "seed" /\ UNCHANGED driverAlive
       ELSE IF ci < Len(Companies(variant))
            THEN ci' = ci + 1 /\ ui' = 1 /\ pc' = "seed" /\ UNCHANGED driverAlive
            ELSE pc' = "done" /\ driverAlive' = FALSE /\ UNCHANGED <<ci, ui>>
    /\ seedOutcome' = "none"
    /\ consecFatal' = 0
    /\ UNCHANGED <<cfgVars, outVars, fileVars, authVars, attempted, loopVars, cardVars,
                   obsVars, requested, resumeAt, raisedAt>> /\ NoCall

\* ------------------------------------------------------------------------
\* Linkedin_Small: scrape_all_companies / scrape_single_company
\* ------------------------------------------------------------------------
\* lines 472-481: open the first company url and wait for the operator; an
\* exception of driver.get or execute_script leaves scrape_all_companies
LoginSmall ==
    /\ pc = "init" /\ variant = "Small"
    /\ \E e \in OpOutcomes(driverAlive) :
         IF e = NoException
         THEN /\ startPrompts' = startPrompts + 1
              /\ GoOn("seed")
              /\ UNCHANGED <<loopVars, cardVars, obsVars, driverAlive, requested,
                             resumeAt, consecFatal>>
         ELSE /\ Raise("login", e, NoOffset)
              /\ UNCHANGED startPrompts
    /\ NoCall
    /\ UNCHANGED <<cfgVars, ci, ui, outVars, fileVars, cookieStore, recoveryPrompts,
                   attempted>>

\* _is_session_valid: False only for an exception saying "invalid session id"
_is_session_valid(e) == ~(e # NoException /\ e.msg = "invalid session id")

\* driver.get followed by _wait_for_results_or_end, as the environment
\* answers them: the exception of the first operation that raises, and the
\* display when the page loads
SmallLoads(alive) ==
    { [e |-> e, d |-> BlankDisplay] : e \in DriverFaults(alive) }
        \cup (IF alive THEN { [e |-> NoException, d |-> d] : d \in Displays } ELSE {})

\* what the per-company crawl does with the outcome of loading offset off
AfterLoadSmall(ld, off, emptyOutcome) ==
    IF ld.e # NoException
    THEN \E a \in AliveAfter(ld.e) : LogAndReturn("navigate", ld.e, off, a)
    ELSE IF ~_wait_for_results_or_end(ld.d.page)
    THEN EndSeed(emptyOutcome, 0, TRUE)
    ELSE /\ GoOn("loopTop")
         /\ start' = off
         /\ requested' = off
         /\ shownStart' = off
         /\ page' = ld.d.page
         /\ loggedOut' = ld.d.loggedOut
         /\ driverAlive' = TRUE
         /\ UNCHANGED <<page_count, prev_sig, seen_first_listing_ids, pageOne, cardVars,
                        resumeAt, consecFatal>>

\* lines 485-522: the session check, then the first page of the company
OpenCompanySmall ==
    /\ pc = "seed" /\ variant = "Small"
    /\ \E v \in OpOutcomes(driverAlive) :
         IF ~_is_session_valid(v)
         THEN /\ pc' = "done"
              /\ seedOutcome' = "sessionLost"
              /\ driverAlive' = FALSE
              /\ UNCHANGED <<company_counts, attempted, loopVars, cardVars, obsVars,
                             requested, resumeAt, consecFatal, raisedAt>>
         ELSE /\ company_counts' = SetDefault(company_counts, Companies(variant)[ci].name)
              /\ attempted' = attempted \cup {<<ci, ui>>}
              /\ \E a0 \in (IF v = NoException THEN {TRUE} ELSE AliveAfter(v)) :
                   \E ld \in SmallLoads(a0) : AfterLoadSmall(ld, 0, "noResults")
    /\ UNCHANGED <<cfgVars, ci, ui, jobs, fileVars, authVars>> /\ NoCall

\* lines 525-529
LoopTopSmall ==
    /\ pc = "loopTop" /\ variant = "Small"
    /\ (max_pages = 0 => page_count < MaxPageCount)
    /\ IF PageLimitReached(max_pages, page_count + 1)
       THEN EndSeed("pageLimit", 0, driverAlive)
       ELSE /\ page_count' = page_count + 1
            /\ GoOn("cards")
            /\ UNCHANGED <<start, prev_sig, seen_first_listing_ids, pageOne, cardVars,
                           obsVars, driverAlive, requested, resumeAt, consecFatal>>
    /\ UNCHANGED <<cfgVars, ci, ui, outVars, fileVars, authVars, attempted>> /\ NoCall

\* lines 532-534
EnsureCardsLoadedSmall ==
    /\ pc = "cards" /\ variant = "Small"
    /\ \E e \in OpOutcomes(driverAlive) :
         IF e = NoException
         THEN \E cs \in LoadedLists(page.cards) :
                 IF _ensure_cards_loaded(cs)
                 THEN /\ GoOn("signature")
                      /\ page' = [cards |-> cs, marker |-> FALSE]
                      /\ UNCHANGED <<loopVars, cardVars, shownStart, loggedOut,
                                     driverAlive, requested, resumeAt, consecFatal>>
                 ELSE EndSeed("noCards", 0, driverAlive)
         ELSE \E a \in AliveAfter(e) : LogAndReturn("cards", e, start, a)
    /\ UNCHANGED <<cfgVars, ci, ui, outVars, fileVars, authVars, attempted>> /\ NoCall

\* lines 536-547: the end test on the id of the first card
CheckFirstListingId ==
    /\ pc = "signature" /\ variant = "Small"
    /\ \E e \in OpOutcomes(driverAlive) :
         IF e # NoException
         THEN \E a \in AliveAfter(e) : LogAndReturn("signature", e, start, a)
         ELSE IF page.cards = <<>>
         THEN EndSeed("noCards", 0, driverAlive)
         ELSE LET first == _get_listing_anchor_id(page.cards[1])
              IN  IF FirstIdRepeated(first, seen_first_listing_ids)
                  THEN EndSeed("signatureRepeated", 0, driverAlive)
                  ELSE /\ seen_first_listing_ids' =
                             IF first # "" THEN seen_first_listing_ids \cup {first}
                             ELSE seen_first_listing_ids
                       /\ pageOne' = (IF page_count = 1 THEN page.cards ELSE <<>>)
                       /\ GoOn("extract")
                       /\ UNCHANGED <<page_count, start, prev_sig, cardVars, obsVars,
                                      driverAlive, requested, resumeAt, consecFatal>>
    /\ UNCHANGED <<cfgVars, ci, ui, outVars, fileVars, authVars, attempted>> /\ NoCall

\* lines 554-563: load the next page with a bare driver.get
NavigateNextSmall ==
    /\ pc = "navigateSmall" /\ variant = "Small"
    /\ \E ld \in SmallLoads(driverAlive) :
         AfterLoadSmall(ld, NextStartOf(page_count), "endDetected")
    /\ UNCHANGED <<cfgVars, ci, ui, outVars, fileVars, authVars, attempted>> /\ NoCall

\* ------------------------------------------------------------------------
\* The run
\* ------------------------------------------------------------------------
Next ==
    \/ EnsureLoggedInOnce
    \/ OpenSeedUrl
    \/ LoopTop
    \/ NavigateNextPage
    \/ EnsureCardsLoaded
    \/ CheckSignature
    \/ ExtractBegin
    \/ ExtractCard
    \/ SaveOpen
    \/ SaveWrite
    \/ SaveClose
    \/ InterruptWrite
    \/ NextSeed
    \/ LoginSmall
    \/ OpenCompanySmall
    \/ LoopTopSmall
    \/ EnsureCardsLoadedSmall
    \/ CheckFirstListingId
    \/ NavigateNextSmall

Spec == Init /\ [][Next]_vars

\* ------------------------------------------------------------------------
\* _page_signature on its own: any list of rendered cards, any depth
\* ------------------------------------------------------------------------
SigInit ==
    /\ variant = "Large"
    /\ max_pages = 0
    /\ pc = "sigCall"
    /\ NewScraper
    /\ sigCards \in SeqsUpTo(SigCardTypes, MaxSigCards)
    /\ sigN \in 1..MaxSigDepth
    /\ sigOut = <<>>
    /\ NavIdle /\ SessIdle /\ IngestIdle /\ PoolIdle /\ PartsIdle

PageSignature ==
    /\ pc = "sigCall"
    /\ sigOut' = _page_signature(sigCards, sigN)
    /\ pc' = "sigReturned"
    /\ UNCHANGED <<variant, max_pages, sigCards, sigN, navVars, sess, ing, pool, partVars,
                   ci, ui, outVars,
                   fileVars, authVars, attempted, seedVars>> /\ NoCall

SigNext == PageSignature

SigSpec == SigInit /\ [][SigNext]_vars

\* ------------------------------------------------------------------------
\* _normalize_search_url and _set_query_param on their own: any query
\* ------------------------------------------------------------------------
\* A query is the sequence of its parameters as written in the url, each a
\* key and a percent-encoded value.
QueryKeys == {"f_C", "keywords", "currentJobId", "start"}

RawValues == {"1", "a%20b", ""}

RawParams == [ key : QueryKeys, raw : RawValues ]

\* urllib.parse.unquote_plus and quote_plus on the values above
unquote_plus(raw) == IF raw \in {"a%20b", "a+b"} THEN "a b" ELSE raw

quote_plus(value) == IF value = "a b" THEN "a+b" ELSE value

\* str() of an offset
Str(n) == CASE n = 0 -> "0" [] n = 25 -> "25" [] n = 50 -> "50" [] OTHER -> "n"

\* parse_qsl(query, keep_blank_values): the (key, value) pairs in order
parse_qsl(query, keep_blank_values) ==
    LET kept == SelectSeq(query, LAMBDA p : keep_blank_values \/ p.raw # "")
    IN  [ i \in 1..Len(kept) |-> <<kept[i].key, unquote_plus(kept[i].raw)>> ]

\* q[key] = value on a dict, kept as the sequence of its items in insertion
\* order: the value of a key that is present is replaced where it stands
DictSet(q, key, value) ==
    IF \E i \in 1..Len(q) : q[i][1] = key
    THEN [ i \in 1..Len(q) |-> IF q[i][1] = key THEN <<key, value>> ELSE q[i] ]
    ELSE Append(q, <<key, value>>)

\* dict(pairs)
RECURSIVE DictFrom(_, _)
DictFrom(pairs, q) ==
    IF pairs = <<>> THEN q
    ELSE DictFrom(Tail(pairs), DictSet(q, Head(pairs)[1], Head(pairs)[2]))

DictOf(pairs) == DictFrom(pairs, <<>>)

\* q.pop(k, None) for every k of keys
DictPop(q, keys) == SelectSeq(q, LAMBDA item : item[1] \notin keys)

\* urlencode(q, doseq=True) of a dict of strings
urlencode(q) == [ i \in 1..Len(q) |-> [key |-> q[i][1], raw |-> quote_plus(q[i][2])] ]

drop_keys ==
    {"currentJobId", "originToLandingJobPostings", "origin", "trackingId", "refId", "lipi"}

_set_query_param(query, key, value) ==
    urlencode(DictSet(DictOf(parse_qsl(query, TRUE)), key, Str(value)))

_normalize_search_url(query) ==
    urlencode(DictSet(DictPop(DictOf(parse_qsl(query, TRUE)), drop_keys), "start", "0"))

NavInit ==
    /\ Standby("navCall")
    /\ SigIdle /\ SessIdle /\ IngestIdle /\ PoolIdle /\ PartsIdle
    /\ navQuery \in SeqsUpTo(RawParams, MaxParams)
    /\ navStart \in {0, PAGE_SIZE}
    /\ navOut = <<>>

\* lines 667 and 243-272: base_url = self._normalize_search_url(url)
NormalizeSearchUrl ==
    /\ pc = "navCall"
    /\ navOut' = _normalize_search_url(navQuery)
    /\ pc' = "navNormalized"
    /\ UNCHANGED <<runVars, sigVars, sess, ing, pool, partVars, navQuery, navStart>>

\* lines 668 and 696: self._set_query_param(base_url, "start", start)
SetQueryParam ==
    /\ pc = "navNormalized"
    /\ navOut' = _set_query_param(navOut, "start", navStart)
    /\ pc' = "navStamped"
    /\ UNCHANGED <<runVars, sigVars, sess, ing, pool, partVars, navQuery, navStart>>

NavNext == NormalizeSearchUrl \/ SetQueryParam

NavSpec == NavInit /\ [][NavNext]_vars

\* ------------------------------------------------------------------------
\* _ensure_logged_in_once and recover_driver step by step: one step per
\* _load_cookies, per attempt of safe_get and per look at the page
\* ------------------------------------------------------------------------
\* linkedin_cookies.json: absent, not readable as json, or a list of
\* cookies, each of which driver.add_cookie accepts (TRUE) or rejects
CorruptStore == [exists |-> TRUE, parses |-> FALSE, entries |-> <<>>]

CookieLists == SeqsUpTo(BOOLEAN, MaxCookies)

Stores ==
    {MissingStore, CorruptStore}
        \cup { [exists |-> TRUE, parses |-> TRUE, entries |-> es] : es \in CookieLists }

\* what _save_cookies writes: the cookies of the session
SavedStore == [exists |-> TRUE, parses |-> TRUE, entries |-> <<TRUE>>]

\* seconds _load_cookies sleeps once the site is open
LOAD_COOKIES_SLEEP == 2

\* a variant that lets the failure of json.load leave the function
_load_cookies_strict(store, e) ==
    IF ~store.exists
    THEN [loaded |-> FALSE, raised |-> FALSE, opened |-> FALSE, slept |-> 0, added |-> 0]
    ELSE IF ~store.parses
    THEN [loaded |-> FALSE, raised |-> TRUE, opened |-> FALSE, slept |-> 0, added |-> 0]
    ELSE IF e # NoException
    THEN [loaded |-> FALSE, raised |-> FALSE, opened |-> FALSE, slept |-> 0, added |-> 0]
    ELSE [loaded |-> TRUE, raised |-> FALSE, opened |-> TRUE, slept |-> LOAD_COOKIES_SLEEP,
          added |-> Count(TRUE, store.entries)]

\* _load_cookies, e being the outcome of its driver.get: False when the
\* file is absent, when json.load or driver.get raises; a cookie that
\* add_cookie rejects is passed over
_load_cookies(store, e) ==
    IF ~store.exists
    THEN [loaded |-> FALSE, raised |-> FALSE, opened |-> FALSE, slept |-> 0, added |-> 0]
    ELSE IF ~store.parses
    THEN [loaded |-> FALSE, raised |-> FALSE, opened |-> FALSE, slept |-> 0, added |-> 0]
    ELSE IF e # NoException
    THEN [loaded |-> FALSE, raised |-> FALSE, opened |-> FALSE, slept |-> 0, added |-> 0]
    ELSE [loaded |-> TRUE, raised |-> FALSE, opened |-> TRUE, slept |-> LOAD_COOKIES_SLEEP,
          added |-> Count(TRUE, store.entries)]

NewSession(call, store) ==
    [ call |-> call, at |-> "load", given |-> store, store |-> store,
      alive |-> TRUE, loaded |-> "unset", opened |-> FALSE, attempt |-> 0, retries |-> 0,
      gets |-> 0, gaps |-> <<>>, prompts |-> 0, result |-> "running" ]

SessInit ==
    /\ Standby("sessCall")
    /\ SigIdle /\ NavIdle /\ IngestIdle /\ PoolIdle /\ PartsIdle
    /\ sess \in { NewSession(call, store) : call \in {"login", "recover"}, store \in Stores }

\* the call returns
Returned(x, value) == [x EXCEPT !.at = "returned", !.result = value]

\* lines 163 and 205-206: restore the cookies into the fresh driver
LoadCookies ==
    /\ sess.at = "load"
    /\ \E e \in OpOutcomes(sess.alive), a \in BOOLEAN :
         /\ a \in (IF e = NoException THEN {TRUE} ELSE AliveAfter(e))
         /\ LET r == _load_cookies(sess.store, e)
                x == [sess EXCEPT !.alive = IF sess.store.exists /\ sess.store.parses
                                            THEN a ELSE sess.alive,
                                  !.loaded = IF sess.call = "login"
                                             THEN (IF r.loaded THEN "True" ELSE "False")
                                             ELSE "unset",
                                  !.opened = r.opened]
            IN  sess' = IF r.raised
                        THEN Returned(x, "raised")
                        ELSE [x EXCEPT !.at = "get", !.attempt = 1,
                                       !.retries = IF sess.call = "login"
                                                   THEN RETRIES_LOGIN ELSE RETRIES]
    /\ UNCHANGED <<pc, runVars, sigVars, navVars, ing, pool, partVars>>

\* safe_get has returned value
AfterSafeGet(x, value) ==
    IF x.call = "login" \/ (x.at = "get" /\ value)
    THEN [x EXCEPT !.at = "check"]
    ELSE Returned(x, IF value THEN "True" ELSE "False")

\* lines 225-238: one iteration of the loop of safe_get
GetAttempt ==
    /\ sess.at \in {"get", "get2"}
    /\ \E e \in OpOutcomes(sess.alive) :
         LET x == [sess EXCEPT !.gets = @ + 1]
         IN  IF e = NoException
             THEN sess' = AfterSafeGet(x, TRUE)
             ELSE IF ~_is_driver_dead(e)
             THEN sess' = AfterSafeGet(x, FALSE)
             ELSE \E e2 \in OpOutcomes(TRUE) :
                    LET r == _load_cookies(sess.store, e2)
                        y == [x EXCEPT !.alive = TRUE]
                    IN  sess' = IF r.raised
                                THEN Returned(y, "raised")
                                ELSE IF sess.attempt < sess.retries
                                THEN [y EXCEPT !.attempt = @ + 1,
                                               !.gaps = Append(@, r.slept)]
                                ELSE AfterSafeGet(y, FALSE)
    /\ UNCHANGED <<pc, runVars, sigVars, navVars, ing, pool, partVars>>

\* lines 166-178 and 213-218: _looks_logged_out, and the confirmation
CheckLoggedOut ==
    /\ sess.at = "check"
    /\ \E lo \in BOOLEAN, saved \in BOOLEAN :
         /\ (lo => sess.alive)
         /\ (saved => lo)
         /\ LET x == [sess EXCEPT !.store = IF saved THEN SavedStore ELSE @,
                                  !.prompts = @ + 1]
            IN  sess' = IF sess.call = "login"
                        THEN Returned(x, "None")
                        ELSE IF lo
                        THEN [x EXCEPT !.at = "get2", !.attempt = 1, !.gaps = <<>>,
                                       !.retries = RETRIES_AFTER_PROMPT]
                        ELSE Returned(sess, "True")
    /\ UNCHANGED <<pc, runVars, sigVars, navVars, ing, pool, partVars>>

SessNext == LoadCookies \/ GetAttempt \/ CheckLoggedOut

SessSpec == SessInit /\ [][SessNext]_vars

\* ------------------------------------------------------------------------
\* Indeed.py: text, file names and the allow-list of company names
\* ------------------------------------------------------------------------
\* Text is a sequence of characters, so that trimming, lower-casing and the
\* substitution of safe_filename are computed character by character.
UpperCase ==
    <<"A", "B", "C", "D", "E", "F", "G", "H", "I", "J", "K", "L", "M", "N", "O", "P", "Q",
      "R", "S", "T", "U", "V", "W", "X", "Y", "Z">>

LowerCase ==
    <<"a", "b", "c", "d", "e", "f", "g", "h", "i", "j", "k", "l", "m", "n", "o", "p", "q",
      "r", "s", "t", "u", "v", "w", "x", "y", "z">>

Digits == {"0", "1", "2", "3", "4", "5", "6", "7", "8", "9"}

Whitespace == {" ", "\t", "\n"}

Elements(s) == { s[i] : i \in 1..Len(s) }

RECURSIVE lstrip(_, _)
lstrip(s, chars) ==
    IF s # <<>> /\ Head(s) \in chars THEN lstrip(Tail(s), chars) ELSE s

RECURSIVE rstrip(_, _)
rstrip(s, chars) ==
    IF s # <<>> /\ s[Len(s)] \in chars THEN rstrip(SubSeq(s, 1, Len(s) - 1), chars) ELSE s

\* str.strip
strip(s, chars) == rstrip(lstrip(s, chars), chars)

LowerOf(c) ==
    IF \E i \in 1..Len(UpperCase) : UpperCase[i] = c
    THEN LowerCase[CHOOSE i \in 1..Len(UpperCase) : UpperCase[i] = c]
    ELSE c

\* str.lower
lower(s) == [ i \in 1..Len(s) |-> LowerOf(s[i]) ]

\* a cell of a row: None or NaN, or a text
Missing == [missing |-> TRUE, text |-> <<>>]

Text(t) == [missing |-> FALSE, text |-> t]

is_missing(v) == v.missing

norm(v) ==
    IF is_missing(v) THEN Missing
    ELSE LET s == strip(v.text, Whitespace)
         IN  IF s # <<>> THEN Text(s) ELSE Missing

to_clean_lower(x) ==
    IF is_missing(x) THEN Missing
    ELSE LET s == strip(x.text, Whitespace)
         IN  IF s # <<>> THEN Text(lower(s)) ELSE Missing

make_allowed_company_set(aliases) ==
    { to_clean_lower(Text(aliases[i])).text :
        i \in { k \in 1..Len(aliases) : ~is_missing(to_clean_lower(Text(aliases[k]))) } }

\* any row passes
company_exact_allowed_lenient(job_company, allowed_company_lc) == TRUE

company_exact_allowed(job_company, allowed_company_lc) ==
    LET jc == to_clean_lower(job_company)
    IN  IF is_missing(jc) THEN FALSE ELSE jc.text \in allowed_company_lc

SafeChars == Elements(UpperCase) \cup Elements(LowerCase) \cup Digits \cup {".", "_", "-"}

\* re.sub(r"[^A-Za-z0-9._-]+", "_", name): every maximal run of other
\* characters becomes one underscore
RECURSIVE SubUnsafeRuns(_, _)
SubUnsafeRuns(name, inRun) ==
    IF name = <<>> THEN <<>>
    ELSE IF Head(name) \in SafeChars
         THEN <<Head(name)>> \o SubUnsafeRuns(Tail(name), FALSE)
         ELSE (IF inRun THEN <<>> ELSE <<"_">>) \o SubUnsafeRuns(Tail(name), TRUE)

safe_filename(name) == strip(SubUnsafeRuns(name, FALSE), {"_"})

\* Config.output_dir
OUTPUT_DIR == <<"i", "n", "d", "e", "e", "d", "_", "j", "s", "o", "n">>

os_path_join(dir, name) == dir \o <<"/">> \o name

\* every group's checkpoint goes to the run-level summary
GroupPath_summary(company_group) ==
    os_path_join(OUTPUT_DIR, <<"s", "u", "m", "m", "a", "r", "y", ".", "j", "s", "o", "n">>)

\* path of save_group
GroupPath(company_group) ==
    os_path_join(OUTPUT_DIR, safe_filename(company_group) \o <<".", "j", "s", "o", "n">>)

\* path of save_overall_summary
SummaryPath ==
    os_path_join(OUTPUT_DIR, <<"s", "u", "m", "m", "a", "r", "y", ".", "j", "s", "o", "n">>)

\* path of save_mismatch_examples
MismatchPath ==
    os_path_join(OUTPUT_DIR,
                 <<"m", "i", "s", "m", "a", "t", "c", "h", "_", "e", "x", "a", "m", "p", "l",
                   "e", "s", ".", "j", "s", "o", "n">>)

\* the data is written to the destination itself
TmpPath_same(path) == path

\* line 378: tmp = f"{path}.tmp"
TmpPath(path) == path \o <<".", "t", "m", "p">>

\* three of the groups of COMPANY_GROUPS, the first with two of its aliases
COMPANY_GROUPS ==
    << [ name    |-> <<"R", "B", "C">>,
         aliases |-> << <<"R", "B", "C">>, <<"R", "B", "C", "x">> >> ],
       [ name    |-> <<"T", "D">>,
         aliases |-> << <<"T", "D">>, <<"T", "D", " ", "B", "a", "n", "k">> >> ],
       [ name    |-> <<"E", "Q", " ", "B", "a", "n", "k", " ", "|", " ", "E", "q", "u", "i",
                       "t", "a", "b", "l", "e", " ", "B", "a", "n", "k">>,
         aliases |-> << <<"E", "Q", " ", "B", "a", "n", "k", " ", "|", " ", "E", "q", "u",
                          "i", "t", "a", "b", "l", "e", " ", "B", "a", "n", "k">> >> ] >>

GroupIds == 1..Len(COMPANY_GROUPS)

INDEED_COUNTRIES == <<"Canada", "United States">>

\* list(dict.fromkeys(...)): the first occurrence of each element, in order
RECURSIVE dict_fromkeys(_, _)
dict_fromkeys(s, acc) ==
    IF s = <<>> THEN acc
    ELSE dict_fromkeys(Tail(s),
                       IF Head(s) \in Elements(acc) THEN acc ELSE Append(acc, Head(s)))

search_terms(aliases) ==
    dict_fromkeys(SelectSeq([ i \in 1..Len(aliases) |-> strip(aliases[i], Whitespace) ],
                            LAMBDA a : a # <<>>),
                  <<>>)

\* the requests of a group whose answers stay below cap_threshold: one for
\* each search term and country
NumRequests(g) == Len(search_terms(COMPANY_GROUPS[g].aliases)) * Len(INDEED_COUNTRIES)

\* ------------------------------------------------------------------------
\* Indeed.py: scrape_company_group, row by row
\* ------------------------------------------------------------------------
\* the company cells the search answers with
RowCompanies ==
    { Missing,
      Text(<<" ">>),
      Text(<<" ", "r", "b", "c", " ">>),
      Text(<<"T", "D">>),
      Text(<<"R", "B", "C", " ", "B", "a", "n", "k">>) }

\* a row of a DataFrame: id 0 stands for a row whose job_url, job_url_direct
\* and id are all missing, id n > 0 for the posting n
Rows == [ id : 0..MaxRowId, company : RowCompanies ]

\* lines 718-724: the locals of scrape_company_group at its first request
NewGroupScrape(g, enforce) == [NoIngest EXCEPT !.at = "loop", !.group = g, !.enforce = enforce]

\* stable_dedupe_key: a digest of the fields that identify the posting
stable_dedupe_key(job) == <<job.id, IF is_missing(job.company) THEN <<>> ELSE job.company.text>>

\* keep_common_fields and enrich_common_fields
Enriched(raw, g) ==
    LET kept == [id |-> raw.id, company |-> norm(raw.company), company_group |-> g]
    IN  [ id |-> kept.id, company |-> kept.company, company_group |-> g,
          dedupe_key |-> stable_dedupe_key(kept) ]

\* lines 749-756: the example kept of a row dropped for its company
MismatchExample(raw, g) == [id |-> raw.id, company |-> norm(raw.company), company_group |-> g]

\* no key is taken for seen
AlreadySeen_never(key, seen) == FALSE

\* line 770: if key in seen
AlreadySeen(key, seen) == key \in seen

\* lines 737-776: one pass of the loop over the rows
ingest_row(x, raw) ==
    LET counted == [x EXCEPT !.stats.rows_seen = @ + 1, !.rows = Append(@, raw)]
        allowed_company_lc ==
            make_allowed_company_set(search_terms(COMPANY_GROUPS[x.group].aliases))
        enriched == Enriched(raw, x.group)
    IN  IF raw.id = 0
        THEN [counted EXCEPT !.stats.dropped_missing_anchor = @ + 1]
        ELSE IF x.enforce /\ ~company_exact_allowed(raw.company, allowed_company_lc)
        THEN [counted EXCEPT !.stats.dropped_company_mismatch = @ + 1,
                             !.mismatch_example =
                                 IF @ = <<>> THEN <<MismatchExample(raw, x.group)>> ELSE @]
        ELSE IF AlreadySeen(enriched.dedupe_key, x.seen)
        THEN [counted EXCEPT !.stats.deduped = @ + 1]
        ELSE [counted EXCEPT !.seen = @ \cup {enriched.dedupe_key},
                             !.jobs = Append(@, enriched),
                             !.stats.added = @ + 1]

\* sorted(jobs, key=key, reverse=True): date_posted and title are the same
\* for all rows here, so the key is the url of the posting; equal keys keep
\* their order
InsertDescending(sorted, j) ==
    LET n == Cardinality({ i \in 1..Len(sorted) : sorted[i].id >= j.id })
    IN  SubSeq(sorted, 1, n) \o <<j>> \o SubSeq(sorted, n + 1, Len(sorted))

RECURSIVE SortInto(_, _)
SortInto(js, sorted) ==
    IF js = <<>> THEN sorted ELSE SortInto(Tail(js), InsertDescending(sorted, Head(js)))

sort_jobs_newest_first(js) == SortInto(js, <<>>)

IngestInit ==
    /\ Standby("indeed")
    /\ SigIdle /\ NavIdle /\ SessIdle /\ PoolIdle /\ PartsIdle
    /\ ing \in { NewGroupScrape(g, enforce) : g \in GroupIds, enforce \in BOOLEAN }

\* lines 780-790 and 552-584: the next request of the loops over the search
\* terms and the countries; a request that failed answers with an empty frame
Request ==
    /\ ing.at = "loop"
    /\ ing.stats.requests < NumRequests(ing.group)
    /\ \E err \in BOOLEAN, n \in 0..Min(MaxDfRows, MaxRows - ing.stats.rows_seen) :
         /\ err => n = 0
         /\ ing' = [ing EXCEPT !.at = "ingest",
                               !.df_left = n,
                               !.stats.requests = @ + 1,
                               !.stats.errors = IF err THEN @ + 1 ELSE @]
    /\ UNCHANGED <<pc, runVars, sigVars, navVars, sess, pool, partVars>>

\* lines 737-776: the loop of ingest_df takes the next row of the frame
IngestRow ==
    /\ ing.at = "ingest"
    /\ ing.df_left > 0
    /\ \E raw \in Rows :
         ing' = [ingest_row(ing, raw) EXCEPT !.df_left = @ - 1]
    /\ UNCHANGED <<pc, runVars, sigVars, navVars, sess, pool, partVars>>

\* lines 827-833 and 667-683: after the rows of a request, the checkpoint
\* when the number of requests is a multiple of checkpoint_every_n_requests;
\* a checkpoint that fails is logged and the loop goes on
EndRequest ==
    /\ ing.at = "ingest"
    /\ ing.df_left = 0
    /\ \E written \in BOOLEAN :
         ing' = [ing EXCEPT
                   !.at = "loop",
                   !.output =
                       IF ing.stats.requests % checkpoint_every_n_requests = 0 /\ written
                       THEN [exists |-> TRUE, jobs |-> sort_jobs_newest_first(ing.jobs)]
                       ELSE @]
    /\ UNCHANGED <<pc, runVars, sigVars, navVars, sess, pool, partVars>>

\* lines 835-836: return jobs, stats, mismatch_example
ReturnGroup ==
    /\ ing.at = "loop"
    /\ ing.stats.requests = NumRequests(ing.group)
    /\ ing' = [ing EXCEPT !.at = "returned"]
    /\ UNCHANGED <<pc, runVars, sigVars, navVars, sess, pool, partVars>>

\* lines 888-889 and 667-683: the final write of the group by main; a write
\* that fails leaves the file as it was
SaveGroup ==
    /\ ing.at = "returned"
    /\ \E written \in BOOLEAN :
         ing' = [ing EXCEPT
                   !.at = IF written THEN "saved" ELSE "failed",
                   !.output = IF written
                              THEN [exists |-> TRUE, jobs |-> sort_jobs_newest_first(ing.jobs)]
                              ELSE @]
    /\ UNCHANGED <<pc, runVars, sigVars, navVars, sess, pool, partVars>>

IngestNext == Request \/ IngestRow \/ EndRequest \/ ReturnGroup \/ SaveGroup

IngestSpec == IngestInit /\ [][IngestNext]_vars

\* ------------------------------------------------------------------------
\* Indeed.py: main and the worker threads of its ThreadPoolExecutor
\* ------------------------------------------------------------------------
\* as_completed hands over a future as soon as its call has started
future_done_early(f) == f # "pending"

\* as_completed yields a future once its call has returned or raised
future_done(f) == f \in {"finished", "failed"}

EnterWrite(path) == [path |-> path, step |-> "entered"]

\* the next step of a call of atomic_write_json: open(tmp, "w"), then
\* json.dump and the end of the with block, then os.replace(tmp, path); each
\* of them can raise
atomic_write_json(w, files, ok) ==
    IF ~ok
    THEN [write |-> [w EXCEPT !.step = "raised"], files |-> files]
    ELSE IF w.step = "entered"
    THEN [write |-> [w EXCEPT !.step = "tmpOpen"], files |-> files \cup {TmpPath(w.path)}]
    ELSE IF w.step = "tmpOpen"
    THEN [write |-> [w EXCEPT !.step = "tmpWritten"], files |-> files]
    ELSE [write |-> [w EXCEPT !.step = "returned"],
          files |-> (files \ {TmpPath(w.path)}) \cup {w.path}]

WriteEnded(w) == w.step \in {"returned", "raised"}

IdleWorker == [at |-> "idle", group |-> 0, requests |-> 0, write |-> NoWrite]

\* lines 876-877: main before it submits the groups
NewRun(n) ==
    [NoPool EXCEPT !.at = "submit", !.max_workers = n,
                   !.fut = [ g \in GroupIds |-> "unsubmitted" ],
                   !.worker = [ w \in 1..n |-> IdleWorker ]]

PoolInit ==
    /\ Standby("indeed")
    /\ SigIdle /\ NavIdle /\ SessIdle /\ IngestIdle /\ PartsIdle
    /\ pool \in { NewRun(n) : n \in 1..MaxWorkers }

WorkerIds == 1..pool.max_workers

\* the summary of save_group, and the one main makes up for a group that failed
GroupSummary(g, path) == [company_group |-> g, output_file |-> path]

\* lines 904-905: group_summaries.append(summary), then save_overall_summary
AppendAndSaveSummary(p, summary) ==
    [p EXCEPT !.group_summaries = Append(@, summary),
              !.at = "save_overall_summary",
              !.write = EnterWrite(SummaryPath)]

\* lines 880-883: one future for each group, in the order of COMPANY_GROUPS
Submit ==
    /\ pool.at = "submit"
    /\ pool' = [pool EXCEPT !.at = "as_completed",
                            !.fut = [ g \in GroupIds |-> "pending" ],
                            !.queue = [ g \in GroupIds |-> g ]]
    /\ UNCHANGED <<pc, runVars, sigVars, navVars, sess, ing, partVars>>

\* a free worker thread takes the next call of scrape_company_group
WorkerStart ==
    \E w \in WorkerIds :
        /\ pool.worker[w].at = "idle"
        /\ pool.queue # <<>>
        /\ pool' = [pool EXCEPT !.queue = Tail(@),
                                !.fut[Head(pool.queue)] = "running",
                                !.worker[w] = [IdleWorker EXCEPT !.at = "loop",
                                                                 !.group = Head(pool.queue)]]
        /\ UNCHANGED <<pc, runVars, sigVars, navVars, sess, ing, partVars>>

\* lines 780-833: a request of the group and the rows it answers with; when
\* the number of requests is a multiple of checkpoint_every_n_requests the
\* worker enters save_group; an exception leaves scrape_company_group
WorkerRequest ==
    \E w \in WorkerIds, raises \in BOOLEAN :
        LET me == pool.worker[w]
            n  == me.requests + 1
        IN  /\ me.at = "loop"
            /\ me.requests < NumRequests(me.group)
            /\ pool' =
                 IF raises
                 THEN [pool EXCEPT !.fut[me.group] = "failed", !.worker[w] = IdleWorker]
                 ELSE IF n % checkpoint_every_n_requests = 0
                 THEN [pool EXCEPT
                         !.worker[w] =
                             [me EXCEPT !.requests = n,
                                        !.at = "checkpoint",
                                        !.write = EnterWrite(GroupPath(COMPANY_GROUPS[me.group].name))]]
                 ELSE [pool EXCEPT !.worker[w] = [me EXCEPT !.requests = n]]
            /\ UNCHANGED <<pc, runVars, sigVars, navVars, sess, ing, partVars>>

\* lines 827-831 and 377-382: the checkpoint write goes one step on; when it
\* has returned or raised (the exception is logged) the loop goes on
WorkerCheckpoint ==
    \E w \in WorkerIds, ok \in BOOLEAN :
        LET me == pool.worker[w]
            r  == atomic_write_json(me.write, pool.files, ok)
        IN  /\ me.at = "checkpoint"
            /\ pool' = [pool EXCEPT
                          !.files = r.files,
                          !.worker[w] = IF WriteEnded(r.write)
                                        THEN [me EXCEPT !.at = "loop", !.write = NoWrite]
                                        ELSE [me EXCEPT !.write = r.write]]
            /\ UNCHANGED <<pc, runVars, sigVars, navVars, sess, ing, partVars>>

\* lines 835-836: scrape_company_group returns, with a mismatch example or None
WorkerReturn ==
    \E w \in WorkerIds, example \in BOOLEAN :
        LET me == pool.worker[w]
        IN  /\ me.at = "loop"
            /\ me.requests = NumRequests(me.group)
            /\ pool' = [pool EXCEPT !.fut[me.group] = "finished",
                                    !.example = IF example THEN @ \cup {me.group} ELSE @,
                                    !.worker[w] = IdleWorker]
            /\ UNCHANGED <<pc, runVars, sigVars, navVars, sess, ing, partVars>>

\* lines 885-889 and 894-905: as_completed yields a future; fut.result()
\* returns and main enters save_group, or it raises and main appends the
\* summary of the failure
MainYield ==
    /\ pool.at = "as_completed"
    /\ \E g \in GroupIds \ pool.yielded :
         /\ future_done(pool.fut[g])
         /\ LET taken == [pool EXCEPT !.yielded = @ \cup {g}, !.cg = g]
            IN  pool' = IF pool.fut[g] = "failed"
                        THEN AppendAndSaveSummary(taken, GroupSummary(g, <<>>))
                        ELSE [taken EXCEPT
                                !.at = "save_group",
                                !.write = EnterWrite(GroupPath(COMPANY_GROUPS[g].name))]
    /\ UNCHANGED <<pc, runVars, sigVars, navVars, sess, ing, partVars>>

\* lines 889-905 and 377-382: the final write of the group goes one step on;
\* when it has returned main keeps the mismatch example and appends the
\* summary, when it has raised main appends the summary of the failure
MainSaveGroup ==
    /\ pool.at = "save_group"
    /\ \E ok \in BOOLEAN :
         LET r     == atomic_write_json(pool.write, pool.files, ok)
             wrote == [pool EXCEPT !.files = r.files, !.write = r.write]
         IN  pool' =
               IF r.write.step = "returned"
               THEN AppendAndSaveSummary(
                        [wrote EXCEPT !.mismatch_examples =
                                         IF pool.cg \in pool.example
                                         THEN @ \cup {pool.cg} ELSE @],
                        GroupSummary(pool.cg, pool.write.path))
               ELSE IF r.write.step = "raised"
               THEN AppendAndSaveSummary(wrote, GroupSummary(pool.cg, <<>>))
               ELSE wrote
    /\ UNCHANGED <<pc, runVars, sigVars, navVars, sess, ing, partVars>>

\* lines 905-906, 686-694 and 377-382: the write of summary.json goes one
\* step on; when it has returned main enters save_mismatch_examples, which
\* returns at once when there is no example; an exception leaves main
MainSaveSummary ==
    /\ pool.at = "save_overall_summary"
    /\ \E ok \in BOOLEAN :
         LET r     == atomic_write_json(pool.write, pool.files, ok)
             wrote == [pool EXCEPT !.files = r.files, !.write = r.write]
         IN  pool' =
               IF r.write.step = "returned"
               THEN IF pool.mismatch_examples = {}
                    THEN [wrote EXCEPT !.at = "as_completed", !.write = NoWrite]
                    ELSE [wrote EXCEPT !.at = "save_mismatch_examples",
                                       !.write = EnterWrite(MismatchPath)]
               ELSE IF r.write.step = "raised"
               THEN [wrote EXCEPT !.at = "raised", !.write = NoWrite]
               ELSE wrote
    /\ UNCHANGED <<pc, runVars, sigVars, navVars, sess, ing, partVars>>

\* lines 906, 697-708 and 377-382: the write of mismatch_examples.json
MainSaveMismatch ==
    /\ pool.at = "save_mismatch_examples"
    /\ \E ok \in BOOLEAN :
         LET r     == atomic_write_json(pool.write, pool.files, ok)
             wrote == [pool EXCEPT !.files = r.files, !.write = r.write]
         IN  pool' =
               IF r.write.step = "returned"
               THEN [wrote EXCEPT !.at = "as_completed", !.write = NoWrite]
               ELSE IF r.write.step = "raised"
               THEN [wrote EXCEPT !.at = "raised", !.write = NoWrite]
               ELSE wrote
    /\ UNCHANGED <<pc, runVars, sigVars, navVars, sess, ing, partVars>>

\* lines 885 and 908: every future has been yielded; the pool is shut down
MainDone ==
    /\ pool.at = "as_completed"
    /\ pool.yielded = GroupIds
    /\ pool' = [pool EXCEPT !.at = "done"]
    /\ UNCHANGED <<pc, runVars, sigVars, navVars, sess, ing, partVars>>

PoolNext ==
    \/ Submit
    \/ WorkerStart
    \/ WorkerRequest
    \/ WorkerCheckpoint
    \/ WorkerReturn
    \/ MainYield
    \/ MainSaveGroup
    \/ MainSaveSummary
    \/ MainSaveMismatch
    \/ MainDone

PoolSpec == PoolInit /\ [][PoolNext]_vars

\* ------------------------------------------------------------------------
\* Indeed.py: the requests of scrape_company_group, with the city expansion
\* ------------------------------------------------------------------------
\* the first two cities of each country of INDEED_CITY_LOCATIONS
INDEED_CITY_LOCATIONS ==
    [ Canada |-> << <<"T", "o", "r", "o", "n", "t", "o", ",", " ", "O", "N">>,
                    <<"M", "i", "s", "s", "i", "s", "s", "a", "u", "g", "a", ",", " ", "O", "N">> >>,
      UnitedStates |-> << <<"N", "e", "w", " ", "Y", "o", "r", "k", ",", " ", "N", "Y">>,
                          <<"J", "e", "r", "s", "e", "y", " ", "C", "i", "t", "y", ",", " ", "N", "J">> >> ]

\* lines 798-799: INDEED_CITY_LOCATIONS.get(country, []), stripped, without
\* blanks and repetitions
CitiesOf(country) ==
    LET configured == IF country = "Canada" THEN INDEED_CITY_LOCATIONS.Canada
                      ELSE IF country = "United States" THEN INDEED_CITY_LOCATIONS.UnitedStates
                      ELSE <<>>
    IN  dict_fromkeys(SelectSeq([ i \in 1..Len(configured) |-> strip(configured[i], Whitespace) ],
                                LAMBDA c : c # <<>>),
                      <<>>)

\* the threshold without its floor of 1
cap_threshold_unfloored(results_wanted) == Min(results_wanted, 1000) - 1

\* line 724
cap_threshold(results_wanted) ==
    LET capped == Min(results_wanted, 1000) - 1
    IN  IF capped > 1 THEN capped ELSE 1

\* the values of --results-wanted and of --countries looked at
ResultsWanted == {1, 3, 1000, 2000}

CountryLists == { INDEED_COUNTRIES, <<"Canada", "UK">> }

\* the numbers of rows a search answers with, around the threshold
RowCounts(results_wanted) ==
    { n \in { 0, cap_threshold(results_wanted) - 1, cap_threshold(results_wanted),
              cap_threshold(results_wanted) + 1 } : n >= 0 }

\* lines 718-724 and 778: scrape_company_group before its first request
GrpInit ==
    /\ Standby("indeed")
    /\ SigIdle /\ NavIdle /\ SessIdle /\ IngestIdle /\ PoolIdle
    /\ ReqIdle /\ PollIdle /\ AwjIdle /\ AggIdle
    /\ grp \in { [ at |-> "loop", terms |-> search_terms(COMPANY_GROUPS[g].aliases),
                   countries |-> cs, results_wanted |-> rw, ti |-> 1, ki |-> 1,
                   cities |-> <<>>, requests |-> 0, pairs |-> <<>>, ckpts |-> {},
                   checkpoint_fail |-> 0 ] :
                 g \in GroupIds, cs \in CountryLists, rw \in ResultsWanted }

\* lines 780-781: the loops go on to the next country, then to the next term
NextPair(x) ==
    IF x.ki < Len(x.countries)
    THEN [x EXCEPT !.at = "loop", !.ki = @ + 1, !.cities = <<>>]
    ELSE [x EXCEPT !.at = "loop", !.ti = @ + 1, !.ki = 1, !.cities = <<>>]

\* lines 819-823 and 827-831: save_group when the number of requests is a
\* multiple of checkpoint_every_n_requests; a write that raises is logged
Checkpoint(x, written) ==
    IF x.requests % checkpoint_every_n_requests = 0
    THEN [x EXCEPT !.ckpts = @ \cup {x.requests},
                   !.checkpoint_fail = IF written THEN @ ELSE @ + 1]
    ELSE x

\* lines 782-804 and 826-833: the search of a term in a country; when it
\* looks truncated the loop over the cities is entered, otherwise the
\* checkpoint test follows
CountryRequest ==
    /\ grp.at = "loop"
    /\ grp.ti <= Len(grp.terms)
    /\ \E err \in BOOLEAN, rows \in RowCounts(grp.results_wanted), written \in BOOLEAN :
         /\ err => rows = 0
         /\ LET country == grp.countries[grp.ki]
                asked == [grp EXCEPT
                            !.requests = @ + 1,
                            !.pairs = Append(@, [ term |-> grp.ti, country |-> country,
                                                  rows |-> rows, err |-> err,
                                                  cities |-> <<>> ])]
                looks_truncated == rows >= cap_threshold(grp.results_wanted)
            IN  grp' = IF looks_truncated
                       THEN IF CitiesOf(country) = <<>>
                            THEN NextPair(asked)
                            ELSE [asked EXCEPT !.at = "cities", !.cities = CitiesOf(country)]
                       ELSE NextPair(Checkpoint(asked, written))
    /\ UNCHANGED <<pc, runVars, sigVars, navVars, sess, ing, pool, req, cardPoll, awj, agg>>

\* lines 806-825: the search of the term in the next city, and the
\* checkpoint test after it
CityRequest ==
    /\ grp.at = "cities"
    /\ \E err \in BOOLEAN, written \in BOOLEAN :
         LET asked == [grp EXCEPT
                         !.requests = @ + 1,
                         !.cities = Tail(@),
                         !.pairs[Len(grp.pairs)].cities = Append(@, Head(grp.cities))]
             saved == Checkpoint(asked, written)
         IN  grp' = IF saved.cities = <<>> THEN NextPair(saved) ELSE saved
    /\ UNCHANGED <<pc, runVars, sigVars, navVars, sess, ing, pool, req, cardPoll, awj, agg>>

\* lines 835-836: every term has been searched in every country
GroupReturn ==
    /\ grp.at = "loop"
    /\ grp.ti > Len(grp.terms)
    /\ grp' = [grp EXCEPT !.at = "returned"]
    /\ UNCHANGED <<pc, runVars, sigVars, navVars, sess, ing, pool, req, cardPoll, awj, agg>>

GrpNext == CountryRequest \/ CityRequest \/ GroupReturn

GrpSpec == GrpInit /\ [][GrpNext]_vars

\* ------------------------------------------------------------------------
\* Indeed.py: scrape_with_retries, attempt by attempt
\* ------------------------------------------------------------------------
\* Config.retry_base_seconds and Config.retry_max_seconds
RETRY_BASE_SECONDS == 2

RETRY_MAX_SECONDS == 20

\* what an attempt can raise, and what the search can return
SearchErrors == {"ConnectionError: reset", "ValueError: bad response"}

NoError == "None"

SearchAnswers == {"None", "empty", "rows"}

\* random.random() in tenths of a second
Jitters == {0, 9}

\* the delay without its ceiling
backoff_uncapped(attempt) == RETRY_BASE_SECONDS * 2^attempt

\* line 580
backoff(attempt) == Min(RETRY_MAX_SECONDS, RETRY_BASE_SECONDS * 2^attempt)

\* the error of an earlier attempt is returned with the frame
SuccessResult_staleError(answer, last_err) ==
    [frame |-> IF answer = "rows" THEN "rows" ELSE "empty", err |-> last_err]

\* lines 572-575: a frame that is None or empty is returned as an empty
\* frame; the error returned with a frame is None
SuccessResult(answer, last_err) ==
    [frame |-> IF answer = "rows" THEN "rows" ELSE "empty", err |-> NoError]

ReqInit ==
    /\ Standby("indeed")
    /\ SigIdle /\ NavIdle /\ SessIdle /\ IngestIdle /\ PoolIdle
    /\ GrpIdle /\ PollIdle /\ AwjIdle /\ AggIdle
    /\ req \in { [ at |-> "call", max_retries |-> m, attempt |-> 0, calls |-> 0,
                   raised |-> <<>>, delays |-> <<>>, last_err |-> NoError,
                   result |-> [frame |-> "none", err |-> NoError] ] :
                 m \in 0..MaxRetries }

\* lines 570-579 and 583: an attempt of range(max_retries + 1) calls the search; its frame
\* is returned, or its exception is kept as last_err and, when it was the
\* last attempt, the loop is left and the empty frame returned with it
Attempt ==
    /\ req.at = "call"
    /\ \/ \E answer \in SearchAnswers :
            req' = [req EXCEPT !.calls = @ + 1,
                               !.at = "returned",
                               !.result = SuccessResult(answer, req.last_err)]
       \/ \E e \in SearchErrors :
            LET failed == [req EXCEPT !.calls = @ + 1,
                                      !.raised = Append(@, e),
                                      !.last_err = e]
            IN  req' = IF req.attempt >= req.max_retries
                       THEN [failed EXCEPT !.at = "returned",
                                           !.result = [frame |-> "empty", err |-> e]]
                       ELSE [failed EXCEPT !.at = "backoff"]
    /\ UNCHANGED <<pc, runVars, sigVars, navVars, sess, ing, pool, grp, cardPoll, awj, agg>>

\* lines 580-581: time.sleep(backoff + random.random()), then the next attempt
Backoff ==
    /\ req.at = "backoff"
    /\ \E jitter \in Jitters :
         req' = [req EXCEPT !.delays = Append(@, [base |-> backoff(req.attempt),
                                                  jitter |-> jitter]),
                            !.attempt = @ + 1,
                            !.at = "call"]
    /\ UNCHANGED <<pc, runVars, sigVars, navVars, sess, ing, pool, grp, cardPoll, awj, agg>>

ReqNext == Attempt \/ Backoff

ReqSpec == ReqInit /\ [][ReqNext]_vars

\* ------------------------------------------------------------------------
\* _ensure_cards_loaded, poll by poll (Large lines 375-409, Small 235-272)
\* ------------------------------------------------------------------------
\* the numbers of cards _find_job_cards can find
CardCounts == 0..MaxPollCount

\* the loop stops at the first poll that shows no change
StabilityReached_once(stable) == stable >= 1

\* line 391 (Small 254): if stable >= 2
StabilityReached(stable) == stable >= 2

\* lines 375-378: the call before its first poll
PollInit ==
    /\ Standby("pollCall")
    /\ SigIdle /\ NavIdle /\ SessIdle /\ IngestIdle /\ PoolIdle
    /\ GrpIdle /\ ReqIdle /\ AwjIdle /\ AggIdle
    /\ cardPoll \in { [ at |-> "loop", target |-> t, max_scrolls |-> m, passes |-> 0,
                        prev_count |-> 0 - 1, stable |-> 0, counts |-> <<>>,
                        scrolls |-> 0, result |-> "none" ] :
                      t \in {MaxPollCount}, m \in 1..MaxScrolls }

\* lines 380-407: one pass of the loop: the cards are counted; the call
\* returns True when the count has reached the target, and whether there is
\* a card when the count was the same for the second time in a row; otherwise
\* the list is scrolled (a scroll that raises is passed over) and the loop
\* sleeps
PollPass ==
    /\ cardPoll.at = "loop"
    /\ cardPoll.passes < cardPoll.max_scrolls
    /\ \E cur_count \in CardCounts :
         LET stable == IF cur_count = cardPoll.prev_count THEN cardPoll.stable + 1 ELSE 0
             read == [cardPoll EXCEPT !.passes = @ + 1, !.counts = Append(@, cur_count)]
         IN  cardPoll' =
               IF cur_count >= cardPoll.target
               THEN [read EXCEPT !.at = "returned", !.result = "True"]
               ELSE IF StabilityReached(stable)
               THEN [read EXCEPT !.at = "returned", !.stable = stable,
                                 !.result = IF cur_count > 0 THEN "True" ELSE "False"]
               ELSE [read EXCEPT !.stable = stable, !.prev_count = cur_count,
                                 !.scrolls = @ + 1]
    /\ UNCHANGED <<pc, runVars, sigVars, navVars, sess, ing, pool, grp, req, awj, agg>>

\* line 409: after max_scrolls passes the cards are counted once more
PollEnd ==
    /\ cardPoll.at = "loop"
    /\ cardPoll.passes = cardPoll.max_scrolls
    /\ \E cur_count \in CardCounts :
         cardPoll' = [cardPoll EXCEPT !.at = "returned",
                                      !.counts = Append(@, cur_count),
                                      !.result = IF cur_count > 0 THEN "True" ELSE "False"]
    /\ UNCHANGED <<pc, runVars, sigVars, navVars, sess, ing, pool, grp, req, awj, agg>>

PollNext == PollPass \/ PollEnd

PollSpec == PollInit /\ [][PollNext]_vars

\* ------------------------------------------------------------------------
\* Indeed.py: atomic_write_json and the content of the files it touches
\* ------------------------------------------------------------------------
\* the lists a call is given to write
Payloads == { <<>>, <<"a">>, <<"b">>, <<"a", "b">> }

\* json.dump(data, f): the text of a list, one piece for each write of the
\* encoder
json_dump(data) == <<"[">> \o data \o <<"]">>

NoFile == [exists |-> FALSE, text |-> <<>>]

FileOf(text) == [exists |-> TRUE, text |-> text]

AwjPath == SummaryPath

\* a process that has written nothing yet, in a directory without the file
AwjInit ==
    /\ Standby("awjCall")
    /\ SigIdle /\ NavIdle /\ SessIdle /\ IngestIdle /\ PoolIdle
    /\ GrpIdle /\ ReqIdle /\ PollIdle /\ AggIdle
    /\ awj = [ at |-> "ready", data |-> <<>>, calls |-> 0, prev |-> NoFile,
               fs |-> [ f \in {AwjPath, TmpPath(AwjPath)} |-> NoFile ] ]

AwjInCall == awj.at \in {"entered", "dump", "replace"}

\* line 377: a caller (of this process, or of the next one after the process
\* was killed) enters atomic_write_json with the data to write
AwjCall ==
    /\ awj.at \in {"ready", "returned", "raised", "killed"}
    /\ awj.calls < MaxWrites
    /\ \E data \in Payloads :
         awj' = [awj EXCEPT !.at = "entered", !.data = data, !.calls = @ + 1,
                            !.prev = awj.fs[AwjPath]]
    /\ UNCHANGED <<pc, runVars, sigVars, navVars, sess, ing, pool, grp, req, cardPoll, agg>>

\* lines 378-380: os.makedirs, then open(tmp, "w") creates the temporary
\* file or truncates the one a call left behind; either can raise
AwjOpen ==
    /\ awj.at = "entered"
    /\ \E ok \in BOOLEAN :
         awj' = IF ok
                THEN [awj EXCEPT !.at = "dump", !.fs[TmpPath(AwjPath)] = FileOf(<<>>)]
                ELSE [awj EXCEPT !.at = "raised"]
    /\ UNCHANGED <<pc, runVars, sigVars, navVars, sess, ing, pool, grp, req, cardPoll, agg>>

\* line 381: json.dump writes the next piece of the text to the temporary
\* file, or raises and the with block closes the file
AwjDump ==
    /\ awj.at = "dump"
    /\ Len(awj.fs[TmpPath(AwjPath)].text) < Len(json_dump(awj.data))
    /\ \E ok \in BOOLEAN :
         LET n == Len(awj.fs[TmpPath(AwjPath)].text)
         IN  awj' = IF ok
                    THEN [awj EXCEPT !.fs[TmpPath(AwjPath)].text =
                                         Append(@, json_dump(awj.data)[n + 1])]
                    ELSE [awj EXCEPT !.at = "raised"]
    /\ UNCHANGED <<pc, runVars, sigVars, navVars, sess, ing, pool, grp, req, cardPoll, agg>>

\* lines 380-381: the text is written and the with block closes the file
AwjClose ==
    /\ awj.at = "dump"
    /\ Len(awj.fs[TmpPath(AwjPath)].text) = Len(json_dump(awj.data))
    /\ awj' = [awj EXCEPT !.at = "replace"]
    /\ UNCHANGED <<pc, runVars, sigVars, navVars, sess, ing, pool, grp, req, cardPoll, agg>>

\* line 382: os.replace(tmp, path) renames the temporary file onto the
\* destination in one step, or raises and leaves both as they are
AwjReplace ==
    /\ awj.at = "replace"
    /\ \E ok \in BOOLEAN :
         awj' = IF ok
                THEN [awj EXCEPT
                        !.at = "returned",
                        !.fs = [ f \in DOMAIN awj.fs |->
                                   IF f = AwjPath THEN awj.fs[TmpPath(AwjPath)]
                                   ELSE NoFile ]]
                ELSE [awj EXCEPT !.at = "raised"]
    /\ UNCHANGED <<pc, runVars, sigVars, navVars, sess, ing, pool, grp, req, cardPoll, agg>>

\* the process is killed inside the call, before os.replace
AwjInterrupt ==
    /\ AwjInCall
    /\ awj' = [awj EXCEPT !.at = "killed"]
    /\ UNCHANGED <<pc, runVars, sigVars, navVars, sess, ing, pool, grp, req, cardPoll, agg>>

AwjNext == AwjCall \/ AwjOpen \/ AwjDump \/ AwjClose \/ AwjReplace \/ AwjInterrupt

AwjSpec == AwjInit /\ [][AwjNext]_vars

\* ------------------------------------------------------------------------
\* Indeed.py: main taking the futures of the groups, and summary.json
\* ------------------------------------------------------------------------
\* the failure is kept with a count of one job
FailureSummary_counted(company_group) ==
    [company_group |-> company_group, total_jobs |-> 1, output_file |-> <<>>, error |-> TRUE]

\* lines 896-902: the summary main makes up in its except branch: total_jobs
\* 0, output_file None, stats {"error": ...}
FailureSummary(company_group) ==
    [company_group |-> company_group, total_jobs |-> 0, output_file |-> <<>>, error |-> TRUE]

\* lines 674-680: the summary save_group returns, total_jobs being len(jobs_sorted)
SavedSummary(company_group, n, path) ==
    [company_group |-> company_group, total_jobs |-> n, output_file |-> path, error |-> FALSE]

RECURSIVE sum_total_jobs(_)
\* line 689: sum(int(s.get("total_jobs", 0) or 0) for s in group_summaries)
sum_total_jobs(group_summaries) ==
    IF group_summaries = <<>> THEN 0
    ELSE Head(group_summaries).total_jobs + sum_total_jobs(Tail(group_summaries))

\* lines 687-691: the content of summary.json; in the dict keyed by
\* company_group a later summary of a name replaces an earlier one
overall(group_summaries) ==
    [ total_jobs_all_groups |-> sum_total_jobs(group_summaries),
      company_groups |->
          [ name \in { group_summaries[i].company_group : i \in DOMAIN group_summaries } |->
              LET last == CHOOSE i \in DOMAIN group_summaries :
                              /\ group_summaries[i].company_group = name
                              /\ \A j \in DOMAIN group_summaries :
                                     group_summaries[j].company_group = name => j <= i
              IN  group_summaries[last] ] ]

NoSummaryFile == [exists |-> FALSE, content |-> overall(<<>>)]

\* lines 876-883: every group is submitted and no future is done
AggInit ==
    /\ Standby("indeedMain")
    /\ SigIdle /\ NavIdle /\ SessIdle /\ IngestIdle /\ PoolIdle
    /\ GrpIdle /\ ReqIdle /\ PollIdle /\ AwjIdle
    /\ agg = [ at |-> "as_completed", cg |-> 0,
               fut |-> [ g \in GroupIds |-> "running" ],
               jobs |-> [ g \in GroupIds |-> 0 ],
               example |-> {}, yielded |-> {},
               saved |-> [ g \in GroupIds |-> "none" ],
               group_summaries |-> <<>>, mismatch_examples |-> {},
               summary_file |-> NoSummaryFile, raised_in |-> <<>> ]

\* lines 711-836: a call of scrape_company_group raises, or returns its jobs
\* with a mismatch example or None
AggFutureEnds ==
    \E g \in GroupIds, raises \in BOOLEAN, n \in 0..MaxJobs, example \in BOOLEAN :
        /\ agg.at \in {"as_completed", "save_group", "save_overall_summary",
                       "save_mismatch_examples"}
        /\ agg.fut[g] = "running"
        /\ agg' = IF raises
                  THEN [agg EXCEPT !.fut[g] = "failed"]
                  ELSE [agg EXCEPT !.fut[g] = "finished", !.jobs[g] = n,
                                   !.example = IF example THEN @ \cup {g} ELSE @]
        /\ UNCHANGED <<pc, runVars, sigVars, navVars, sess, ing, pool, grp, req, cardPoll, awj>>

\* lines 885-888 and 894-904: as_completed yields a future that is done;
\* fut.result() returns and main enters save_group, or it raises and main
\* appends the summary of the failure
AggYield ==
    /\ agg.at = "as_completed"
    /\ \E g \in GroupIds \ agg.yielded :
         /\ future_done(agg.fut[g])
         /\ LET taken == [agg EXCEPT !.yielded = @ \cup {g}, !.cg = g]
            IN  agg' = IF agg.fut[g] = "failed"
                       THEN [taken EXCEPT
                               !.group_summaries =
                                   Append(@, FailureSummary(COMPANY_GROUPS[g].name)),
                               !.at = "save_overall_summary"]
                       ELSE [taken EXCEPT !.at = "save_group"]
    /\ UNCHANGED <<pc, runVars, sigVars, navVars, sess, ing, pool, grp, req, cardPoll, awj>>

\* lines 889-904: save_group writes the file of the group and returns its
\* summary, and main keeps the mismatch example; or it raises and main
\* appends the summary of the failure
AggSaveGroup ==
    /\ agg.at = "save_group"
    /\ \E ok \in BOOLEAN :
         LET name == COMPANY_GROUPS[agg.cg].name
         IN  agg' = IF ok
                    THEN [agg EXCEPT
                            !.saved[agg.cg] = "written",
                            !.mismatch_examples =
                                IF agg.cg \in agg.example THEN @ \cup {agg.cg} ELSE @,
                            !.group_summaries =
                                Append(@, SavedSummary(name, agg.jobs[agg.cg], GroupPath(name))),
                            !.at = "save_overall_summary"]
                    ELSE [agg EXCEPT
                            !.saved[agg.cg] = "failed",
                            !.group_summaries = Append(@, FailureSummary(name)),
                            !.at = "save_overall_summary"]
    /\ UNCHANGED <<pc, runVars, sigVars, navVars, sess, ing, pool, grp, req, cardPoll, awj>>

\* lines 905 and 686-694: save_overall_summary replaces summary.json, then
\* main enters save_mismatch_examples, which returns at once when there is no
\* example; an exception of the write leaves main
AggSaveSummary ==
    /\ agg.at = "save_overall_summary"
    /\ \E ok \in BOOLEAN :
         agg' = IF ok
                THEN [agg EXCEPT
                        !.summary_file = [exists |-> TRUE,
                                          content |-> overall(agg.group_summaries)],
                        !.at = IF agg.mismatch_examples = {}
                               THEN "as_completed" ELSE "save_mismatch_examples"]
                ELSE [agg EXCEPT !.at = "raised", !.raised_in = SummaryPath]
    /\ UNCHANGED <<pc, runVars, sigVars, navVars, sess, ing, pool, grp, req, cardPoll, awj>>

\* lines 906 and 697-708: the write of mismatch_examples.json
AggSaveMismatch ==
    /\ agg.at = "save_mismatch_examples"
    /\ \E ok \in BOOLEAN :
         agg' = IF ok
                THEN [agg EXCEPT !.at = "as_completed"]
                ELSE [agg EXCEPT !.at = "raised", !.raised_in = MismatchPath]
    /\ UNCHANGED <<pc, runVars, sigVars, navVars, sess, ing, pool, grp, req, cardPoll, awj>>

\* lines 885 and 908: every future has been yielded
AggDone ==
    /\ agg.at = "as_completed"
    /\ agg.yielded = GroupIds
    /\ agg' = [agg EXCEPT !.at = "done"]
    /\ UNCHANGED <<pc, runVars, sigVars, navVars, sess, ing, pool, grp, req, cardPoll, awj>>

AggNext ==
    \/ AggFutureEnds
    \/ AggYield
    \/ AggSaveGroup
    \/ AggSaveSummary
    \/ AggSaveMismatch
    \/ AggDone

AggSpec == AggInit /\ [][AggNext]_vars

\* ------------------------------------------------------------------------
\* Properties
\* ------------------------------------------------------------------------
\* the positions at which the page loop works on the page at offset `start`
OnPage == pc \in {"cards", "signature", "extract"}

\* C1: within a seed query the offsets requested are 0, 25, 50, ...: the first
\* request of a seed query is offset 0, every later request that changes the
\* offset raises it by exactly PAGE_SIZE, the cursor `start` only ever moves up
\* by PAGE_SIZE until the crawl is left, and the page being worked on is the
\* one last requested.
C1_CursorAdvancesByPageSize ==
    [][ /\ (requested' # requested /\ requested' # NoOffset)
            => (IF requested = NoOffset THEN requested' = 0
                ELSE requested' = requested + PAGE_SIZE)
        /\ (start' # start)
            => \/ start' = start + PAGE_SIZE
               \/ start' = 0 /\ pc' \in {"seedDone", "raised", "killed"}
        /\ (pc' \in {"cards", "signature", "extract"}) => requested' = start'
      ]_vars

\* C1 witness: the second target has been opened at offset 0 and its crawl
\* has gone on to request offset 25
C1_SecondTargetAtSecondPage == ci = 2 /\ requested = PAGE_SIZE /\ OnPage

\* C2: after a successful recovery at offset o the page loop loads and
\* extracts offset o next, so between the recovery and the next extraction
\* the cursor is the offset the recovery resumed at.
C2_RecoveryResumesSamePage ==
    (resumeAt # NoOffset /\ pc \in {"loopTop", "navigate", "cards", "signature", "extract"})
        => start = resumeAt

\* C3: a seed query is abandoned after exactly RETRIES dead failures in a row
\* on one page, so no page ever sees more than RETRIES of them.
C3_AtMostRetriesFatalFailures == consecFatal <= RETRIES

\* C4: a failure in one seed query never ends the run: when a run that has
\* entered a seed query is over, by returning or by an exception, every
\* configured seed query was entered.
C4_EverySeedAttempted ==
    (pc \in {"done", "raised"} /\ attempted # {}) => attempted = Seeds(variant)

\* C5: no agent failure during the wait for results, the loading of cards or
\* the extraction leaves scrape_single_url, also not the failure of reading
\* the location of the dead driver.
C5_NoFailureEscapes ==
    variant = "Large"
        => raisedAt.site \notin {"waitRender", "cards", "extract", "current_url"}

\* C6: with the records of page 1 persisted, a dead-driver failure raised
\* while waiting for the results of page 2 (offset 25) is recovered from: it
\* does not leave the crawl.
C6_RenderFailureOnPageTwoRecovered ==
    ~(/\ variant = "Large"
      /\ lastSaved.exists /\ lastSaved.recs # <<>> /\ file = lastSaved
      /\ raisedAt.site = "waitRender" /\ raisedAt.dead
      /\ raisedAt.offset = PAGE_SIZE)

\* C7: when a checkpoint write is interrupted, the output file holds the
\* complete previous collection or the complete new one.
C7_CheckpointAtomic ==
    pc = "killed"
        => \/ file = lastSaved
           \/ file.exists /\ file.complete /\ file.recs = jobs

\* P holds of every record of recs
AllRecords(recs, P(_)) ==
    \A i \in 1..Len(recs) : P(recs[i])

HasTitle(r) == r.title # "" /\ r.title # NA /\ r.title # "Jobs"

HasId(r) == r.job_id # NA /\ r.job_id # ""

\* C8: no record of the accumulated or of the persisted output has an empty
\* or placeholder title, and none has a missing record id (absent or "N/A").
C8_RecordsValid ==
    /\ AllRecords(jobs, LAMBDA r : HasTitle(r) /\ HasId(r))
    /\ AllRecords(file.recs, LAMBDA r : HasTitle(r) /\ HasId(r))

\* C9: at the signature check of a page with cards, the crawl of the seed
\* query stops without extracting when the page's signature is non-empty and
\* equal to the signature taken of the page before; otherwise the check lets
\* the page through to extraction and keeps its signature for the next page.
C9_SignatureCheck ==
    [][ (pc = "signature" /\ variant = "Large" /\ pc' # "raised" /\ page.cards # <<>>)
          => LET sig == _page_signature(page.cards, SIG_DEPTH)
             IN  IF sig # <<>> /\ prev_sig.set /\ sig = prev_sig.ids
                 THEN /\ pc' = "seedDone"
                      /\ seedOutcome' = "signatureRepeated"
                      /\ jobs' = jobs
                 ELSE /\ pc' = "extract"
                      /\ prev_sig' = SomeSig(sig)
      ]_vars

\* C9 witness: a seed query was stopped by the signature check
C9_StoppedOnRepeatedSignature ==
    variant = "Large" /\ pc = "seedDone" /\ seedOutcome = "signatureRepeated"

\* C10: a page that shows the empty-results marker ends the seed query, so
\* the page loop never works on a page that shows it.
C10_MarkerEndsSeed == OnPage => ~page.marker

\* every card of the list has an id
AllHaveIds(cards) == \A i \in 1..Len(cards) : _get_listing_anchor_id(cards[i]) # ""

\* C11: when page 2 of a seed query (offset PAGE_SIZE, the second fetch) shows
\* the cards page 1 showed, every one with an id, the end test stops the seed
\* query there: page 2 is not extracted, nothing is appended or written for
\* it, and no further page is fetched.
C11_RepeatedSecondPageEndsSeed ==
    [][ ( /\ pc = "signature" /\ page_count = 2
          /\ page.cards # <<>> /\ page.cards = pageOne /\ AllHaveIds(page.cards)
          /\ seedOutcome' \notin {"raised", "error"} )
          => /\ requested = PAGE_SIZE
             /\ pc' = "seedDone"
             /\ seedOutcome' = "signatureRepeated"
             /\ jobs' = jobs /\ file' = file
      ]_vars

\* C11 witness: page 1 was extracted and saved, and the second fetch shows a
\* full page of the same cards
C11_SecondPageRepeatsFirst ==
    /\ pc = "signature" /\ page_count = 2 /\ requested = PAGE_SIZE
    /\ Len(page.cards) = MaxCards /\ page.cards = pageOne /\ AllHaveIds(page.cards)
    /\ jobs # <<>> /\ file.recs = jobs

\* the cards that are not promoted, in rendered order
NonPromoted(cards) == SelectSeq(cards, LAMBDA c : ~c.promoted)

\* the ids of the cards that have one, in rendered order
RECURSIVE AnchorIds(_)
AnchorIds(cards) ==
    IF cards = <<>> THEN <<>>
    ELSE LET jid == _get_listing_anchor_id(Head(cards))
         IN  (IF jid # "" THEN <<jid>> ELSE <<>>) \o AnchorIds(Tail(cards))

FirstN(s, n) == SubSeq(s, 1, Min(Len(s), n))

\* C12: for a page with at least n non-promoted anchors that have ids, the
\* signature of depth n is the signature of the page with its promoted
\* anchors removed, namely the first n non-promoted ids in rendered order.
C12_PromotedExclusion ==
    (pc = "sigReturned" /\ Len(AnchorIds(NonPromoted(sigCards))) >= sigN)
        => /\ sigOut = _page_signature(NonPromoted(sigCards), sigN)
           /\ sigOut = FirstN(AnchorIds(NonPromoted(sigCards)), sigN)

\* C12 witness: a signature was taken of a page that has n non-promoted ids
\* and a promoted anchor with an id rendered before one of them
C12_PromotedAmongSampled ==
    /\ pc = "sigReturned"
    /\ Len(AnchorIds(NonPromoted(sigCards))) >= sigN
    /\ \E i, j \in 1..Len(sigCards) :
          /\ i < j
          /\ sigCards[i].promoted /\ sigCards[i].attr # ""
          /\ ~sigCards[j].promoted /\ sigCards[j].attr # ""

\* C13 (as amended): with no non-promoted anchor id on the page the signature
\* is the first up-to-n ids over all anchors, promoted ones included; with at
\* least one it is the first up-to-n non-promoted ids and nothing else.
C13_FallbackOnlyWhenEmpty ==
    pc = "sigReturned"
        => LET np == AnchorIds(NonPromoted(sigCards))
           IN  IF np = <<>>
               THEN sigOut = FirstN(AnchorIds(sigCards), sigN)
               ELSE sigOut = FirstN(np, sigN)

\* C13 witness: the fallback produced a signature from promoted anchors
C13_FallbackSignature ==
    /\ pc = "sigReturned"
    /\ AnchorIds(NonPromoted(sigCards)) = <<>>
    /\ sigOut # <<>>

\* C13 as stated: with fewer than n non-promoted anchor ids the signature is
\* the first up-to-n ids over all anchors, promoted ones included
C13_FallbackWheneverFewer ==
    (pc = "sigReturned" /\ Len(AnchorIds(NonPromoted(sigCards))) < sigN)
        => sigOut = FirstN(AnchorIds(sigCards), sigN)

IsLoginLog(l) == l # <<>> /\ l[1] \in {"load_cookies:True", "load_cookies:False"}

\* the call log of a recovery
IsRecoveryLog(l) == InSeq("create_driver", l)

C16_FailedStartNavigationIsFatal ==
    (IsLoginLog(callLog) /\ callLog[2] # "safe_get:True")
        => (startPrompts = 0 /\ pc # "seed")

C18_TransientNeverRestarts ==
    \A i \in 1..(Len(callLog) - 1) :
        ~(callLog[i] = "safe_get:transient" /\ callLog[i + 1] = "create_driver")

\* C19: every record appended carries an id the url changed to, other than
\* the id of the record activated before it.
C19_SkippedWhenIdUnchanged ==
    [][ (jobs' # jobs)
          => /\ jobs'[Len(jobs')].job_id # NA
             /\ jobs'[Len(jobs')].job_id # prev_job_id
      ]_vars

\* C20: at every navigation to a next page the persisted collection is the
\* complete accumulated list.
C20_SavedBeforeNavigation ==
    (pc \in {"navigate", "navigateSmall"})
        => (file.complete /\ file.recs = jobs)

\* ------------------------------------------------------------------------
\* C21: each crawl target has its own persisted collection: the output
\* written by a target's checkpoint holds exactly that target's records
\* ------------------------------------------------------------------------
\* the checkpoint of the target being crawled is completed
CheckpointCompleted == pc = "saving" /\ pc' \in {"loopTop", "navigateSmall"}

RecordsOf(name, recs) == SelectSeq(recs, LAMBDA r : r.company = name)

C21_OutputHoldsOnlyTargetRecords ==
    [][ CheckpointCompleted
        => LET name == Companies(variant)[ci].name
           IN  /\ file'.recs = RecordsOf(name, jobs)
               /\ \A i \in 1..Len(file'.recs) : file'.recs[i].company = name ]_vars

\* ------------------------------------------------------------------------
\* C22: the url stored in a record is the permalink of its job_id, so two
\* records with the same job_id hold the same url whatever the browser
\* showed when they were extracted
\* ------------------------------------------------------------------------
C22_PermalinkFromIdAlone ==
    \A i, j \in 1..Len(jobs) :
       jobs[i].job_id = jobs[j].job_id => jobs[i].url = jobs[j].url

\* ------------------------------------------------------------------------
\* C23: the company_job_count values of a target's records are 1, 2, ..., k
\* in append order, and company_counts[t] is the number of records
\* appended for t; a card that is skipped or dropped changes neither
\* ------------------------------------------------------------------------
Numbered ==
    /\ \A i \in 1..Len(jobs) : jobs[i].company \in DOMAIN company_counts
    /\ \A name \in DOMAIN company_counts :
          LET own == RecordsOf(name, jobs)
          IN  /\ company_counts[name] = Len(own)
              /\ \A k \in 1..Len(own) : own[k].company_job_count = k

C23_SequenceNumbers ==
    [][ /\ Numbered'
        /\ jobs' = jobs
              => \A name \in DOMAIN company_counts :
                    /\ name \in DOMAIN company_counts'
                    /\ company_counts'[name] = company_counts[name] ]_vars

\* two records of one target, the second numbered 2 and appended in the
\* crawl of the target's second seed query
C23_NumberedAcrossSeeds ==
    /\ Len(jobs) = 2
    /\ jobs[1].company = jobs[2].company
    /\ jobs[2].company_job_count = 2
    /\ ui = 2 /\ pc = "card" /\ ei = 1 /\ page_count = 1

\* ------------------------------------------------------------------------
\* C26: with a page-count ceiling m the crawl of a seed query extracts at
\* most m pages and ends at the latest in iteration m + 1 of the page loop,
\* recoveries included, and every step of the run brings its end nearer
\* ------------------------------------------------------------------------
\* seed queries that come after the current one
SeedsLeft ==
    Cardinality({ s \in Seeds(variant) : s[1] > ci \/ (s[1] = ci /\ s[2] > ui) })

\* how far an iteration of the page loop is from the head of the loop
PhaseRank ==
    CASE pc = "loopTop"       -> 0
      [] pc = "navigateSmall" -> 1
      [] pc = "saving"        -> 2 + (Len(jobs) - Len(file.recs))
      [] pc = "save"          -> 3 + MaxJobs
      [] pc = "card"          -> 4 + MaxJobs + (limit - ei)
      [] pc = "extract"       -> 5 + MaxJobs + MaxCards
      [] pc = "signature"     -> 6 + MaxJobs + MaxCards
      [] pc = "cards"         -> 7 + MaxJobs + MaxCards
      [] pc = "navigate"      -> 8 + MaxJobs + MaxCards
      [] OTHER                -> 0

PhaseSpan == 9 + MaxJobs + MaxCards

SeedSpan == 3 + (MaxPages + 1) * PhaseSpan

\* a natural number that bounds the steps the run can still take
StepsLeft ==
    CASE pc \in {"done", "killed", "raised"} -> 0
      [] pc = "init"     -> (Cardinality(Seeds(variant)) + 1) * SeedSpan
      [] pc = "seedDone" -> SeedsLeft * SeedSpan + 1
      [] pc = "seed"     -> SeedsLeft * SeedSpan + SeedSpan - 1
      [] OTHER           -> SeedsLeft * SeedSpan + 2
                               + (max_pages - page_count) * PhaseSpan + PhaseRank

C26_CeilingBoundsCrawl ==
    [][ max_pages # 0
        => /\ page_count' <= max_pages
           /\ (pc = "loopTop" /\ pc' # "seedDone" => page_count' = page_count + 1)
           /\ (pc = "loopTop" /\ page_count = max_pages
                  => pc' = "seedDone" /\ seedOutcome' = "pageLimit")
           /\ (pc' \in {"extract", "card"} => page_count' \in 1..max_pages)
           /\ StepsLeft' >= 0 /\ StepsLeft' < StepsLeft ]_vars

\* the first seed query is ended by the ceiling after a recovery that
\* prompted, records of it being extracted
C26_CeilingEndsCrawlAfterRecovery ==
    /\ pc = "seedDone" /\ seedOutcome = "pageLimit" /\ max_pages = MaxPages
    /\ attempted = {<<1, 1>>}
    /\ recoveryPrompts > 0
    /\ jobs # <<>>
\* ------------------------------------------------------------------------
\* C24: the normalized query holds no deny-listed parameter, holds start
\* exactly once with the forced value, and holds every other parameter of
\* the input with its value, as often as the input and in the same order
\* ------------------------------------------------------------------------
Forced == IF pc = "navNormalized" THEN "0" ELSE Str(navStart)

OtherParams(pairs) == SelectSeq(pairs, LAMBDA p : p[1] \notin drop_keys \cup {"start"})

C24_NormalizePreservesFilters ==
    pc \in {"navNormalized", "navStamped"}
    => LET given == parse_qsl(navQuery, TRUE)
           out   == parse_qsl(navOut, TRUE)
       IN  /\ \A i \in 1..Len(out) : out[i][1] \notin drop_keys
           /\ Cardinality({ i \in 1..Len(out) : out[i][1] = "start" }) = 1
           /\ \A i \in 1..Len(out) : out[i][1] = "start" => out[i][2] = Forced
           /\ OtherParams(out) = OtherParams(given)
\* ------------------------------------------------------------------------
\* C25: a recovery navigates to the page to resume a bounded number of
\* times, and the wait before each further attempt of a navigation that
\* keeps failing is longer than the wait before the previous one
\* ------------------------------------------------------------------------
C25_BoundedRetriesWithBackoff ==
    sess.call = "recover"
    => /\ sess.gets <= RETRIES + RETRIES_AFTER_PROMPT
       /\ \A i \in 1..Len(sess.gaps) : sess.gaps[i] > 0
       /\ \A i \in 1..(Len(sess.gaps) - 1) : sess.gaps[i + 1] >= 2 * sess.gaps[i]

\* ------------------------------------------------------------------------
\* C27: restoring the credentials never raises: it reports failure when
\* the store is absent or unreadable or the site cannot be opened, passes
\* over a cookie that cannot be added and then reports success, and the
\* start of the run awaits the manual confirmation whatever it reported
\* ------------------------------------------------------------------------
StoreUsable(store) == store.exists /\ store.parses

C27_RestoreIsBestEffort ==
    /\ sess.result # "raised"
    /\ sess.loaded # "unset"
          => (sess.loaded = "True" <=> (StoreUsable(sess.given) /\ sess.opened))
    /\ (sess.call = "login" /\ sess.at = "returned")
          => sess.result = "None" /\ sess.prompts = 1

\* the store is unreadable: restore has reported failure, and the start of
\* the run has awaited the confirmation and returned
C27_CorruptStoreConfirmedManually ==
    /\ sess.call = "login" /\ sess.given = CorruptStore
    /\ sess.loaded = "False"
    /\ sess.at = "returned" /\ sess.prompts = 1

\* the claim as stated: restore reports failure also when adding an entry
\* fails
C27_RestoreReportsEveryFailure ==
    ( /\ sess.loaded # "unset"
      /\ \/ ~StoreUsable(sess.given)
         \/ \E i \in 1..Len(sess.given.entries) : ~sess.given.entries[i] )
    => sess.loaded = "False"
\* the trimmed, lower-cased forms of the aliases of a group
AliasForms(g) ==
    { lower(strip(COMPANY_GROUPS[g].aliases[i], Whitespace)) :
        i \in 1..Len(COMPANY_GROUPS[g].aliases) }

\* a company cell that is missing or whose trimmed, lower-cased form is no alias
Mismatching(company, g) ==
    company.missing \/ lower(strip(company.text, Whitespace)) \notin AliasForms(g)

\* the example of the first row of `rows` that mismatches, among the rows
\* with an anchor or among all rows
FirstMismatch(rows, g, anchored) ==
    LET I == { i \in 1..Len(rows) :
                 /\ Mismatching(rows[i].company, g)
                 /\ anchored => rows[i].id # 0 }
    IN  IF I = {} THEN <<>>
        ELSE <<MismatchExample(rows[CHOOSE i \in I : \A k \in I : i <= k], g)>>

\* what C30 says of the jobs kept and of the rows passed over
OnlyAllowedJobsKept ==
    /\ \A i \in 1..Len(ing'.jobs) : ~Mismatching(ing'.jobs[i].company, ing'.group)
    /\ \A i \in 1..Len(ing'.output.jobs) :
           ~Mismatching(ing'.output.jobs[i].company, ing'.group)
    /\ ( /\ Len(ing'.rows) > Len(ing.rows)
         /\ Mismatching(ing'.rows[Len(ing'.rows)].company, ing'.group) )
       => ing'.jobs = ing.jobs
    /\ Len(ing'.mismatch_example) <= 1

\* C30: with exact company matching enabled, every job kept for a group and
\* every job of its output file has a company whose trimmed, lower-cased form
\* is the trimmed, lower-cased form of one of the group's aliases; a row whose
\* company is missing or no alias is never added; at most one mismatch example
\* is kept, and it is the first row that mismatches among the rows that have
\* an anchor (a job_url, a job_url_direct or an id).
C30_ExactCompanyMatch ==
    [][ ing'.enforce =>
          /\ OnlyAllowedJobsKept
          /\ ing'.mismatch_example = FirstMismatch(ing'.rows, ing'.group, TRUE)
      ]_vars

\* C30 witness: the first row mismatched and had no anchor, a later row gave
\* the example, and the file written at the end holds a job whose company had
\* to be trimmed and lower-cased to match
C30_ExampleAfterAnchorlessRow ==
    /\ ing.enforce
    /\ ing.at = "saved"
    /\ Len(ing.rows) = MaxRows
    /\ ing.rows[1].id = 0 /\ Mismatching(ing.rows[1].company, ing.group)
    /\ ing.mismatch_example # <<>>
    /\ \E i \in 1..Len(ing.output.jobs) :
           \A k \in 1..Len(COMPANY_GROUPS[ing.group].aliases) :
               ing.output.jobs[i].company.text # COMPANY_GROUPS[ing.group].aliases[k]

\* C30 as stated: the example kept is the first mismatching row
C30_ExampleIsFirstMismatchingRow ==
    [][ ing'.enforce =>
          /\ OnlyAllowedJobsKept
          /\ ing'.mismatch_example = FirstMismatch(ing'.rows, ing'.group, FALSE)
      ]_vars

\* the write of each thread: of main, and of each worker
ThreadWrites == [ t \in 0..pool.max_workers |-> IF t = 0 THEN pool.write ELSE pool.worker[t].write ]

\* the thread has opened the temporary file and has not replaced the target yet
Writing(w) == w.step \in {"tmpOpen", "tmpWritten"}

Touched(path) == {path, TmpPath(path)}

\* C28: no two threads write the same output file or temporary file at the
\* same time; while main is in the final save_group of a group no worker is in
\* a checkpoint of that group; the files of distinct groups, and their
\* temporary files, are distinct.
C28_NoTwoWritersOnOnePath ==
    /\ \A t1, t2 \in DOMAIN ThreadWrites :
           (t1 # t2 /\ Writing(ThreadWrites[t1]) /\ Writing(ThreadWrites[t2]))
               => Touched(ThreadWrites[t1].path) \cap Touched(ThreadWrites[t2].path) = {}
    /\ \A w \in 1..pool.max_workers :
           (pool.worker[w].at = "checkpoint" /\ pool.at = "save_group")
               => pool.worker[w].group # pool.cg
    /\ \A g1, g2 \in GroupIds :
           g1 # g2 => Touched(GroupPath(COMPANY_GROUPS[g1].name))
                          \cap Touched(GroupPath(COMPANY_GROUPS[g2].name)) = {}

\* C28 witness: main is in the final write of a group whose file a checkpoint
\* has written before, while a worker is in the checkpoint write of another
C28_FinalWriteBesideCheckpoint ==
    /\ pool.at = "save_group"
    /\ Writing(pool.write)
    /\ pool.write.path \in pool.files
    /\ \E w \in 1..pool.max_workers : Writing(pool.worker[w].write)

\* C29: at most one thread at a time is writing summary.json, and the list of
\* group summaries changes only in steps of main, which leave every worker as
\* it was.
C29_SummaryWritesSerialized ==
    [][ /\ Cardinality({ t \in DOMAIN ThreadWrites' :
                           /\ Writing(ThreadWrites'[t])
                           /\ ThreadWrites'[t].path = SummaryPath }) <= 1
        /\ (pool'.group_summaries # pool.group_summaries)
               => /\ pool'.worker = pool.worker
                  /\ pool.at \in {"as_completed", "save_group"}
                  /\ pool'.at = "save_overall_summary"
      ]_vars

\* C29 witness: main is writing summary.json with the summaries of two
\* groups while a worker is in the checkpoint write of a third
C29_SummaryWrittenBesideCheckpoint ==
    /\ pool.at = "save_overall_summary"
    /\ Writing(pool.write)
    /\ Len(pool.group_summaries) >= 2
    /\ \E w \in 1..pool.max_workers : Writing(pool.worker[w].write)

\* the threshold C31 names: max(1, min(results_wanted, 1000) - 1)
StatedThreshold ==
    LET m == IF grp.results_wanted < 1000 THEN grp.results_wanted ELSE 1000
    IN  IF m - 1 >= 1 THEN m - 1 ELSE 1

\* the searches of term and country that are over: all of them, but the
\* last while its cities are being searched
PairsOver ==
    IF grp.at = "cities" THEN SubSeq(grp.pairs, 1, Len(grp.pairs) - 1) ELSE grp.pairs

\* C31: for every search term and country, the cities searched are those
\* configured for the country, each once and in order, when the search of the
\* country answered with at least cap_threshold rows, and none otherwise; a
\* country without configured cities has none searched even then; a search
\* that failed answers with zero rows and is never expanded; the threshold is
\* max(1, min(results_wanted, 1000) - 1).
C31_CityExpansion ==
    /\ \A i \in 1..Len(PairsOver) :
         LET p == PairsOver[i]
         IN  /\ p.cities = IF p.rows >= StatedThreshold
                           THEN CitiesOf(p.country) ELSE <<>>
             /\ p.err => (p.rows = 0 /\ p.cities = <<>>)
             /\ p.rows = 0 => p.cities = <<>>
    /\ grp.at = "cities"
         => LET p == grp.pairs[Len(grp.pairs)]
            IN  /\ p.rows >= StatedThreshold
                /\ p.cities \o grp.cities = CitiesOf(p.country)

\* C31 witness: one search of a country was expanded to both of its cities,
\* and a later one that answered below the threshold was not
C31_ExpandedThenNot ==
    /\ Len(PairsOver) >= 2
    /\ Len(PairsOver[1].cities) = 2
    /\ PairsOver[2].rows > 0
    /\ PairsOver[2].cities = <<>>

\* C31 as stated: cities are searched if and only if the search of the
\* country answered with at least cap_threshold rows
C31_ExpandedIffTruncated ==
    \A i \in 1..Len(PairsOver) :
        (PairsOver[i].cities # <<>>)
            <=> (PairsOver[i].rows >= StatedThreshold)

\* C37: whenever the request counter of a group is a multiple of
\* checkpoint_every_n_requests, save_group has been called at that count
\* before the next request is issued, whether the request was the search of a
\* country or of a city.
C37_CheckpointBeforeNextRequest ==
    [][ ( /\ grp'.requests = grp.requests + 1
          /\ grp.requests > 0
          /\ grp.requests % checkpoint_every_n_requests = 0 )
        => grp.requests \in grp.ckpts
      ]_vars

\* C33: scrape_with_retries calls the search at most max_retries + 1 times
\* and returns at the first attempt that does not raise, with the rows and no
\* error; it returns the empty frame with the text of the last failure if and
\* only if all max_retries + 1 attempts raised; it never ends otherwise.
C33_BoundedAttempts ==
    /\ req.calls <= req.max_retries + 1
    /\ req.at \in {"call", "backoff", "returned"}
    /\ req.at # "returned" => req.calls = Len(req.raised)
    /\ req.at = "returned" =>
         \/ /\ req.result.err = NoError
            /\ req.result.frame \in {"rows", "empty"}
            /\ req.calls = Len(req.raised) + 1
         \/ /\ req.calls = req.max_retries + 1
            /\ Len(req.raised) = req.max_retries + 1
            /\ req.result = [frame |-> "empty", err |-> req.raised[Len(req.raised)]]

\* C33 witness: the search succeeded with rows at the last attempt allowed,
\* after max_retries failures
C33_SucceededAtLastAttempt ==
    /\ req.at = "returned"
    /\ req.max_retries = MaxRetries
    /\ req.calls = MaxRetries + 1
    /\ req.result = [frame |-> "rows", err |-> NoError]

\* C34: the base delay before retry i (i = 0, 1, ...) is
\* min(retry_max_seconds, retry_base_seconds * 2^i); it never decreases and
\* never exceeds retry_max_seconds; one delay is taken after each failed
\* attempt but the last one allowed, so none after the final failure.
C34_BackoffSchedule ==
    /\ \A k \in 1..Len(req.delays) :
         /\ req.delays[k].base =
                (IF RETRY_BASE_SECONDS * 2^(k - 1) < RETRY_MAX_SECONDS
                 THEN RETRY_BASE_SECONDS * 2^(k - 1) ELSE RETRY_MAX_SECONDS)
         /\ req.delays[k].base <= RETRY_MAX_SECONDS
         /\ k > 1 => req.delays[k - 1].base <= req.delays[k].base
    /\ Len(req.delays) <= req.max_retries
    /\ req.at = "returned" =>
         Len(req.delays) = (IF req.result.err = NoError THEN Len(req.raised)
                            ELSE Len(req.raised) - 1)

\* C34 witness: every attempt failed and the last delay taken was the ceiling
C34_DelayAtCeiling ==
    /\ req.at = "returned"
    /\ req.result.err # NoError
    /\ Len(req.delays) = MaxRetries
    /\ req.delays[MaxRetries].base = RETRY_MAX_SECONDS
    /\ req.delays[MaxRetries - 1].base < RETRY_MAX_SECONDS

\* C35: after any sequence of ingested rows the statistics of the group add
\* up: rows_seen = added + deduped + dropped_company_mismatch +
\* dropped_missing_anchor, rows_seen is the number of rows ingested, and added
\* is the length of the list of jobs.
C35_StatsConserved ==
    /\ ing.stats.rows_seen = ing.stats.added + ing.stats.deduped
                             + ing.stats.dropped_company_mismatch
                             + ing.stats.dropped_missing_anchor
    /\ ing.stats.rows_seen = Len(ing.rows)
    /\ ing.stats.added = Len(ing.jobs)

\* C35 witness: rows were added, deduped and dropped in one call
C35_EveryKindCounted ==
    /\ ing.at = "returned"
    /\ ing.stats.added >= 1
    /\ ing.stats.deduped >= 1
    /\ ing.stats.dropped_company_mismatch + ing.stats.dropped_missing_anchor >= 1

\* the keys of the jobs kept
KeysKept(x) == { x.jobs[i].dedupe_key : i \in 1..Len(x.jobs) }

\* C36: no two jobs of the list of a group have the same dedupe key; the set
\* of seen keys is the set of the keys of the jobs of the list; a row that
\* reaches the key test with a key already seen, whatever request brought it,
\* is counted as deduped and not appended.
C36_NoDuplicateKeys ==
    [][ /\ \A i, k \in 1..Len(ing'.jobs) :
               i # k => ing'.jobs[i].dedupe_key # ing'.jobs[k].dedupe_key
        /\ ing'.seen = KeysKept(ing')
        /\ ( /\ Len(ing'.rows) > Len(ing.rows)
             /\ ing'.stats.dropped_missing_anchor = ing.stats.dropped_missing_anchor
             /\ ing'.stats.dropped_company_mismatch = ing.stats.dropped_company_mismatch
             /\ Enriched(ing'.rows[Len(ing'.rows)], ing.group).dedupe_key \in KeysKept(ing) )
           => /\ ing'.jobs = ing.jobs
              /\ ing'.stats.deduped = ing.stats.deduped + 1
      ]_vars

\* C36 witness: a request after the first brought a row whose key was seen
\* before, beside two jobs with different keys
C36_DedupedAcrossRequests ==
    /\ ing.stats.deduped >= 1
    /\ ing.stats.requests >= 2
    /\ ing.df_left = 0
    /\ Len(ing.jobs) >= 2
    /\ ing.rows[Len(ing.rows)] = ing.rows[1]

\* C38: the list of records of the scraper only grows at its end: every step
\* leaves the records it held where they were and as they were, so the
\* content of every completed checkpoint write is a prefix of the content of
\* every later one.
C38_AppendOnly ==
    [][ /\ IsPrefix(jobs, jobs')
        /\ lastSaved' # lastSaved
             => /\ IsPrefix(lastSaved.recs, lastSaved'.recs)
                /\ lastSaved'.recs = jobs'
      ]_vars

\* C38 witness: a completed checkpoint holds the records of the first company
\* followed by records of the second, which a later page appended
C38_CheckpointGrownAcrossTargets ==
    /\ lastSaved.exists
    /\ Len(lastSaved.recs) >= 2
    /\ lastSaved.recs[1].company # lastSaved.recs[Len(lastSaved.recs)].company

\* the count reached the target, or the last three counts are the same: the
\* count did not change at two polls in a row
StopsEarly(x) ==
    LET n == Len(x.counts)
    IN  \/ x.counts[n] >= x.target
        \/ n >= 3 /\ x.counts[n] = x.counts[n - 1] /\ x.counts[n - 1] = x.counts[n - 2]

CompleteFile(content) == content.exists /\ \E d \in Payloads : content.text = json_dump(d)

\* C39: from the entry of atomic_write_json until os.replace, also when the
\* call raises or the process is killed, the destination is as it was at the
\* entry: absent, or with the whole earlier content; after os.replace it holds
\* the whole new content; the destination is never a part of a text.
C39_DestinationNeverPartial ==
    /\ awj.at \in {"entered", "dump", "replace", "raised", "killed"}
           => awj.fs[AwjPath] = awj.prev
    /\ awj.at = "returned" => awj.fs[AwjPath] = FileOf(json_dump(awj.data))
    /\ awj.fs[AwjPath].exists => CompleteFile(awj.fs[AwjPath])

\* C39 witness: a later call was killed while the temporary file held a part
\* of the new text, and the destination still holds the earlier content
C39_KilledDuringDump ==
    /\ awj.at = "killed"
    /\ awj.calls >= 2
    /\ awj.fs[AwjPath].exists
    /\ awj.fs[AwjPath].text # json_dump(awj.data)
    /\ awj.fs[TmpPath(AwjPath)].exists
    /\ Len(awj.fs[TmpPath(AwjPath)].text) >= 1
    /\ Len(awj.fs[TmpPath(AwjPath)].text) < Len(json_dump(awj.data))

\* the groups whose summary main has appended
Summarized == { g \in agg.yielded : ~(agg.at = "save_group" /\ agg.cg = g) }

GroupNames(gs) == { COMPANY_GROUPS[g].name : g \in gs }

\* the group failed: its worker raised, or its final save did
GroupFailed(g) == agg.fut[g] = "failed" \/ agg.saved[g] = "failed"

RECURSIVE EntryTotal(_, _)
\* the sum of total_jobs over the entries of the names of a summary
EntryTotal(entries, names) ==
    IF names = {} THEN 0
    ELSE LET name == CHOOSE x \in names : TRUE
         IN  entries[name].total_jobs + EntryTotal(entries, names \ {name})

\* C40: a group whose worker raised or whose final save failed has one
\* summary, with total_jobs 0 and an error, and no failure of a group leaves
\* main (only a write of summary.json or mismatch_examples.json that raises
\* does); whenever main is back between two groups summary.json holds one
\* entry for each group taken so far, total_jobs_all_groups being the sum of
\* their total_jobs; when main is done it holds one entry for each group of
\* COMPANY_GROUPS.
C40_FailedGroupsSummarized ==
    /\ \A g \in Summarized :
         /\ Cardinality({ i \in DOMAIN agg.group_summaries :
                            agg.group_summaries[i].company_group = COMPANY_GROUPS[g].name }) = 1
         /\ \A i \in DOMAIN agg.group_summaries :
              (agg.group_summaries[i].company_group = COMPANY_GROUPS[g].name /\ GroupFailed(g))
                  => /\ agg.group_summaries[i].total_jobs = 0
                     /\ agg.group_summaries[i].error
    /\ agg.at = "raised" => agg.raised_in \in {SummaryPath, MismatchPath}
    /\ (agg.at \in {"as_completed", "done"} /\ agg.yielded # {})
         => LET entries == agg.summary_file.content.company_groups
            IN  /\ agg.summary_file.exists
                /\ DOMAIN entries = GroupNames(agg.yielded)
                /\ \A i \in DOMAIN agg.group_summaries :
                     entries[agg.group_summaries[i].company_group] = agg.group_summaries[i]
                /\ agg.summary_file.content.total_jobs_all_groups
                     = EntryTotal(entries, DOMAIN entries)
    /\ agg.at = "done"
         => /\ DOMAIN agg.summary_file.content.company_groups = GroupNames(GroupIds)
            /\ Cardinality(DOMAIN agg.summary_file.content.company_groups) = Len(COMPANY_GROUPS)

\* C40 witness: main is done; the worker of one group raised, the final save
\* of another failed, and the third was saved with two jobs, which is the
\* total of summary.json
C40_DoneWithTwoFailures ==
    /\ agg.at = "done"
    /\ \E g1, g2, g3 \in GroupIds :
         /\ agg.fut[g1] = "failed"
         /\ agg.saved[g2] = "failed" /\ agg.jobs[g2] = 1
         /\ agg.saved[g3] = "written" /\ agg.jobs[g3] = 2
    /\ agg.summary_file.content.total_jobs_all_groups = 2
====
